---- MODULE Spec2Model ----
(***************************************************************************)
(* ChatFlow: the socket server (backend/socket/socketServer.js), the user  *)
(* tracking service (services/userTrackingService.js) and the room service *)
(* (backend/services/roomService.js) as a state machine.                   *)
(*                                                                         *)
(* Node runs one callback at a time: every action below is one synchronous *)
(* segment of a handler (from an event or a resolved await up to the next  *)
(* await), or one SQL statement executing in the database.                 *)
(*                                                                         *)
(* socket.io semantics used by the handlers:                               *)
(*  - a handler registered with socket.on after the event was emitted does *)
(*    not see that event (EventEmitter has no replay);                     *)
(*  - on close the socket leaves all its rooms and is removed from the     *)
(*    namespace before "disconnect" is emitted;                            *)
(*  - socket.join does not look at socket.connected: it adds the socket id *)
(*    to the adapter's room whatever the socket's state;                   *)
(*  - a broadcast is written only to the socket ids of the target rooms    *)
(*    that are still sockets of the namespace.                             *)
(***************************************************************************)
EXTENDS Integers, Sequences, FiniteSets, TLC

\* ---------------------------------------------------------------- bounds
NumUsers == 2
NumSockets == 2
MaxRooms == 1
MaxMessages == 2

\* the number of emitted events followed on their way to the clients
MaxEvents == 4 * NumSockets
MaxRoomEvents == 4

\* text.length > 5000 is rejected
MaxMessageLength == 5000

\* name.length < 3 || name.length > 100 is rejected
MinNameLength == 3
MaxNameLength == 100

\* join-room loads getRoomMessages(roomId, 50)
HistoryLimit == 50

Users == 1..NumUsers
Sockets == 1..NumSockets
RoomIds == 1..MaxRooms

\* socket.user of a socket that has not passed the handshake; also the null
\* that removeUser returns (user ids are SERIAL, so they start at 1)
Null == 0

VARIABLES
  userSockets,   \* Map userId -> Set of socketIds (userTrackingService)
  socketUsers,   \* Map socketId -> userId (userTrackingService)
  connected,     \* the sockets of the namespace (io.sockets.sockets)
  sockUser,      \* socket.user.userId, set by socketAuthMiddleware
  hs,            \* position of each socket's "connection" handler (with, while
                 \* it runs, the rooms its user had when it started)
  adapter,       \* socket.io rooms "room:<id>": room id -> set of socket ids
  rooms,         \* table rooms: sequence of rows, the row's index is its id
  members,       \* table room_members: its rows, oldest first
  messages,      \* table messages: sequence of rows, the row's index is its id
  reqs,          \* the request each socket has in flight
  out,           \* the events emitted by the last step, in order
  act,           \* the last step taken
  clients        \* the events of the kinds being followed that were written
                 \* to each socket, in order and numbered as they were emitted

vars == <<userSockets, socketUsers, connected, sockUser, hs, adapter, rooms,
          members, messages, reqs, out, act, clients>>

\* ------------------------------------------------------- JavaScript values
\* the values a condition can see: booleans, undefined, and a pending Promise
Truthy(v) == v \notin {"false", "undefined", "null"}

JsBool(b) == IF b THEN "true" ELSE "false"

DropKey(f, k) == [x \in DOMAIN f \ {k} |-> f[x]]

\* ------------------------------------------------ userTrackingService.js
\* the two maps as one value
Registry == [userSockets |-> userSockets, socketUsers |-> socketUsers]

EmptyMap == [x \in {} |-> {}]

addUserToggles(reg, userId, socketId) ==
  LET us0 == IF userId \in DOMAIN reg.userSockets
             THEN reg.userSockets
             ELSE reg.userSockets @@ (userId :> {})
      us1 == [us0 EXCEPT ![userId] = IF socketId \in @ THEN @ \ {socketId}
                                     ELSE @ \cup {socketId}]
      su1 == IF socketId \in DOMAIN reg.socketUsers
             THEN [reg.socketUsers EXCEPT ![socketId] = userId]
             ELSE reg.socketUsers @@ (socketId :> userId)
  IN [userSockets |-> us1, socketUsers |-> su1]

addUser(reg, userId, socketId) ==
  LET us0 == IF userId \in DOMAIN reg.userSockets
             THEN reg.userSockets
             ELSE reg.userSockets @@ (userId :> {})
      us1 == [us0 EXCEPT ![userId] = @ \cup {socketId}]
      su1 == IF socketId \in DOMAIN reg.socketUsers
             THEN [reg.socketUsers EXCEPT ![socketId] = userId]
             ELSE reg.socketUsers @@ (socketId :> userId)
  IN [userSockets |-> us1, socketUsers |-> su1]

removeUserKeepsReverse(reg, socketId) ==
  LET userId == IF socketId \in DOMAIN reg.socketUsers
                THEN reg.socketUsers[socketId] ELSE Null
  IN IF userId = Null
     THEN [reg |-> reg, ret |-> Null]
     ELSE LET us1 == IF userId \in DOMAIN reg.userSockets
                     THEN LET left == reg.userSockets[userId] \ {socketId}
                          IN IF Cardinality(left) = 0
                             THEN DropKey(reg.userSockets, userId)
                             ELSE [reg.userSockets EXCEPT ![userId] = left]
                     ELSE reg.userSockets
          IN [reg |-> [userSockets |-> us1, socketUsers |-> reg.socketUsers],
              ret |-> userId]

\* returns the registry left and the value returned (Null for null)
removeUser(reg, socketId) ==
  LET userId == IF socketId \in DOMAIN reg.socketUsers
                THEN reg.socketUsers[socketId] ELSE Null
  IN IF userId = Null
     THEN [reg |-> reg, ret |-> Null]
     ELSE LET us1 == IF userId \in DOMAIN reg.userSockets
                     THEN LET left == reg.userSockets[userId] \ {socketId}
                          IN IF Cardinality(left) = 0
                             THEN DropKey(reg.userSockets, userId)
                             ELSE [reg.userSockets EXCEPT ![userId] = left]
                     ELSE reg.userSockets
          IN [reg |-> [userSockets |-> us1,
                       socketUsers |-> DropKey(reg.socketUsers, socketId)],
              ret |-> userId]

getUserSockets(reg, userId) ==
  IF userId \in DOMAIN reg.userSockets THEN reg.userSockets[userId] ELSE {}

\* a variant that finds nobody online
isUserOnlineNever(reg, userId) == "undefined"

isUserOnlineOffByOne(reg, userId) ==
  IF userId \in DOMAIN reg.userSockets
  THEN JsBool(Cardinality(reg.userSockets[userId]) > 1)
  ELSE "undefined"

\* socketSet && socketSet.size > 0: undefined when the user has no entry
isUserOnline(reg, userId) ==
  IF userId \in DOMAIN reg.userSockets
  THEN JsBool(Cardinality(reg.userSockets[userId]) > 0)
  ELSE "undefined"

\* Array.from(set): a Set iterates in insertion order, which for the sockets
\* of a user is the order of their ids (ids are handed out in connection order)
RECURSIVE InOrder(_)
InOrder(S) ==
  IF S = {} THEN <<>>
  ELSE LET m == CHOOSE x \in S : \A y \in S : x <= y
       IN <<m>> \o InOrder(S \ {m})

getOnlineUsers(reg) == DOMAIN reg.userSockets

\* a variant that counts the connections
getOnlineUserCountOfSockets(reg) == Cardinality(DOMAIN reg.socketUsers)

getOnlineUserCount(reg) == Cardinality(DOMAIN reg.userSockets)

\* ------------------------------------------------------------ socket.io
\* an emitted event: its name, the socket ids it is addressed to, its payload
Emit(ev, to, p) == [ev |-> ev, to |-> to, p |-> p]

\* the sockets an emitted event is written to
Received(e) == e.to \cap connected

Events(ev) == {i \in 1..Len(out) : out[i].ev = ev}

socketJoinNothing(ad, socketId, roomId) == ad

\* socket.join(`room:${id}`)
socketJoin(ad, socketId, roomId) ==
  IF roomId \in DOMAIN ad
  THEN [ad EXCEPT ![roomId] = @ \cup {socketId}]
  ELSE ad @@ (roomId :> {socketId})

socketJoinAll(ad, socketId, roomSet) ==
  [r \in DOMAIN ad \cup roomSet |->
     (IF r \in DOMAIN ad THEN ad[r] ELSE {})
       \cup (IF r \in roomSet THEN {socketId} ELSE {})]

\* socket.leave(`room:${id}`); the adapter deletes a room that becomes empty
socketLeave(ad, socketId, roomId) ==
  IF roomId \in DOMAIN ad
  THEN IF ad[roomId] \ {socketId} = {}
       THEN DropKey(ad, roomId)
       ELSE [ad EXCEPT ![roomId] = @ \ {socketId}]
  ELSE ad

\* what closing a socket does to the rooms
leaveAll(ad, socketId) ==
  [r \in {x \in DOMAIN ad : ad[x] \ {socketId} # {}} |-> ad[r] \ {socketId}]

subscribersOf(roomId) == IF roomId \in DOMAIN adapter THEN adapter[roomId] ELSE {}

\* a variant of the transport that hands a socket its newest packet first
socketWriteNewestFirst(w, x) == <<x>> \o w

\* the packets written to a socket reach its client in the order written
socketWrite(w, x) == Append(w, x)

\* no event is followed
NoClients ==
  [keeps |-> {}, most |-> MaxEvents, emitted |-> 0,
   wire |-> [s \in Sockets |-> <<>>]]

\* c after the events were emitted, in order, each written to the open
\* sockets it is addressed to
RECURSIVE written(_, _, _)
written(c, events, open) ==
  IF events = <<>> THEN c
  ELSE LET e == Head(events)
           n == c.emitted + 1
           c1 == IF e.ev \in c.keeps
                 THEN [keeps |-> c.keeps, most |-> c.most, emitted |-> n,
                       wire |-> [s \in Sockets |->
                                  IF s \in e.to \cap open
                                  THEN socketWrite(c.wire[s], [n |-> n, e |-> e])
                                  ELSE c.wire[s]]]
                 ELSE c
       IN written(c1, Tail(events), open)

\* ------------------------------------------------------------ roomService
\* a text is known by its length and by whether it is all white space
\* (text.trim() is then the empty string); the empty text is all white space
Texts ==
  {[len |-> 0, blank |-> TRUE],
   [len |-> 1, blank |-> TRUE],
   [len |-> 1, blank |-> FALSE],
   [len |-> MaxMessageLength, blank |-> FALSE],
   [len |-> MaxMessageLength + 1, blank |-> FALSE]}

textEmptyNoTrim(text) == text.len = 0

\* !text || !text.trim()
textEmpty(text) == text.len = 0 \/ text.blank

textTooLong(text) == text.len > MaxMessageLength

\* room names are sequences of characters
LowerAlnumHyphen ==
  {"a", "b", "c", "d", "e", "f", "g", "h", "i", "j", "k", "l", "m", "n", "o",
   "p", "q", "r", "s", "t", "u", "v", "w", "x", "y", "z", "0", "1", "2", "3",
   "4", "5", "6", "7", "8", "9", "-"}

\* a name one character longer than the longest allowed
LongName == [i \in 1..(MaxNameLength + 1) |-> "a"]

\* roomData.name: two good names, one with a capital, one too short, one too
\* long, and the empty name
RoomNames ==
  {<<"g", "e", "n">>, <<"d", "e", "v">>, <<"G", "e", "n">>, <<"a", "b">>,
   LongName, <<>>}

\* roomData.displayName: missing (or empty), or given
DisplayNames == {"", "General"}

\* /^[a-z0-9-]+$/.test(name)
nameRegexTest(name) ==
  Len(name) >= 1 /\ \A i \in 1..Len(name) : name[i] \in LowerAlnumHyphen

roomExists(roomId) == roomId \in 1..Len(rooms)

\* getRoomById: result.rows, whose first row is returned (null if none)
getRoomById(roomId) == IF roomExists(roomId) THEN <<rooms[roomId]>> ELSE <<>>

createRoomErrorNoLength(name, displayName) ==
  IF Len(name) = 0 \/ displayName = ""
  THEN "Room name and display name are required"
  ELSE IF ~nameRegexTest(name)
  THEN "Room name can only contain lowercase letters, numbers, and hyphens"
  ELSE ""

\* the error createRoom throws before it opens the transaction ("" if none)
createRoomError(name, displayName) ==
  IF Len(name) = 0 \/ displayName = ""
  THEN "Room name and display name are required"
  ELSE IF ~nameRegexTest(name)
  THEN "Room name can only contain lowercase letters, numbers, and hyphens"
  ELSE IF Len(name) < MinNameLength \/ Len(name) > MaxNameLength
  THEN "Room name must be between 3 and 100 characters"
  ELSE ""

\* the UNIQUE constraint on rooms.name
roomNameTaken(name) == \E i \in 1..Len(rooms) : rooms[i].name = name

\* rows of room_members of a room and a user
memberRows(roomId, userId) ==
  SelectSeq(members, LAMBDA m : m.room_id = roomId /\ m.user_id = userId)

isRoomMember(roomId, userId) == Len(memberRows(roomId, userId)) > 0

joinRoomErrorPrivateAllowed(rows) ==
  IF Len(rows) = 0 THEN "Room not found" ELSE ""

\* the error joinRoom throws after getRoomById ("" if none)
joinRoomError(rows) ==
  IF Len(rows) = 0 THEN "Room not found"
  ELSE IF ~rows[1].is_public THEN "Room is private"
  ELSE ""

\* a variant without the conflict clause on a table without the UNIQUE
\* constraint: it adds a row each time
insertMemberAlways(rows, roomId, userId, role) ==
  Append(rows, [room_id |-> roomId, user_id |-> userId, role |-> role])

insertMemberOnConflictUpdateRole(rows, roomId, userId, role) ==
  IF \E i \in 1..Len(rows) : rows[i].room_id = roomId /\ rows[i].user_id = userId
  THEN [i \in 1..Len(rows) |->
          IF rows[i].room_id = roomId /\ rows[i].user_id = userId
          THEN [rows[i] EXCEPT !.role = role] ELSE rows[i]]
  ELSE Append(rows, [room_id |-> roomId, user_id |-> userId, role |-> role])

\* INSERT INTO room_members ... ON CONFLICT (room_id, user_id) DO NOTHING
insertMemberOnConflictDoNothing(rows, roomId, userId, role) ==
  IF \E i \in 1..Len(rows) : rows[i].room_id = roomId /\ rows[i].user_id = userId
  THEN rows
  ELSE Append(rows, [room_id |-> roomId, user_id |-> userId, role |-> role])

leaveRoomErrorOwnerMayLeave(rows) ==
  IF Len(rows) = 0 THEN "Not a member of this room" ELSE ""

\* the error leaveRoom throws after its membership query ("" if none)
leaveRoomError(rows) ==
  IF Len(rows) = 0 THEN "Not a member of this room"
  ELSE IF rows[1].role = "owner"
  THEN "Room owner cannot leave. Delete the room instead"
  ELSE ""

deleteMemberNothing(rows, roomId, userId) == rows

\* DELETE FROM room_members WHERE room_id = $1 AND user_id = $2
deleteMember(rows, roomId, userId) ==
  SelectSeq(rows, LAMBDA m : ~(m.room_id = roomId /\ m.user_id = userId))

\* getRoomMembers: the rows of the room
getRoomMembers(roomId) == SelectSeq(members, LAMBDA m : m.room_id = roomId)

getUserRooms(userId) ==
  {members[i].room_id : i \in {j \in 1..Len(members) : members[j].user_id = userId}}

\* result.rows.reverse()
Reverse(rows) == [i \in 1..Len(rows) |-> rows[Len(rows) + 1 - i]]

orderByCreatedAtAscLimit(ids, limit) ==
  IF Len(ids) <= limit THEN ids ELSE SubSeq(ids, 1, limit)

\* ORDER BY m.created_at DESC LIMIT $n over the message ids in ids (ascending);
\* created_at grows with the id: rows are stamped as they are inserted
orderByCreatedAtDescLimit(ids, limit) ==
  LET desc == Reverse(ids)
  IN IF Len(desc) <= limit THEN desc ELSE SubSeq(desc, 1, limit)

\* getRoomMessages: the ids of the rows returned, in the order returned
getRoomMessages(roomId, limit) ==
  LET ids == SelectSeq([i \in 1..Len(messages) |-> i],
                       LAMBDA i : messages[i].room_id = roomId)
  IN Reverse(orderByCreatedAtDescLimit(ids, limit))

getDirectMessagesOneWay(user1Id, user2Id, limit) ==
  LET ids == SelectSeq([i \in 1..Len(messages) |-> i],
                       LAMBDA i : /\ messages[i].room_id = Null
                                  /\ messages[i].sender_id = user2Id
                                  /\ messages[i].recipient_id = user1Id)
  IN Reverse(orderByCreatedAtDescLimit(ids, limit))

getDirectMessagesOfUser(user1Id, user2Id, limit) ==
  LET ids == SelectSeq([i \in 1..Len(messages) |-> i],
                       LAMBDA i : /\ messages[i].room_id = Null
                                  /\ \/ messages[i].sender_id = user1Id
                                     \/ messages[i].recipient_id = user1Id)
  IN Reverse(orderByCreatedAtDescLimit(ids, limit))

\* getDirectMessages: the ids of the rows returned, in the order returned
getDirectMessages(user1Id, user2Id, limit) ==
  LET ids == SelectSeq([i \in 1..Len(messages) |-> i],
                       LAMBDA i : /\ messages[i].room_id = Null
                                  /\ \/ /\ messages[i].sender_id = user1Id
                                        /\ messages[i].recipient_id = user2Id
                                     \/ /\ messages[i].sender_id = user2Id
                                        /\ messages[i].recipient_id = user1Id)
  IN Reverse(orderByCreatedAtDescLimit(ids, limit))

saveMessageErrorNoDestination(roomId, recipientId, content) ==
  IF content.len = 0 THEN "Message content is required" ELSE ""

\* the error saveMessage throws before it queries ("" if none)
saveMessageError(roomId, recipientId, content) ==
  IF roomId = Null /\ recipientId = Null
  THEN "Message must have either roomId or recipientId"
  ELSE IF content.len = 0 THEN "Message content is required"
  ELSE ""

\* the foreign keys of messages: sender and recipient are users
messageKeysOk(recipientId) == recipientId = Null \/ recipientId \in Users

\* ------------------------------------------------- socketAuthMiddleware
\* socket.handshake.auth.token: none, a string that is no JWT, a JWT past its
\* expiry, a JWT with a wrong signature, or a good JWT; userId is the user the
\* payload names (user NumUsers + 1 is not in the table users)
Tokens ==
  {[kind |-> "missing", userId |-> Null],
   [kind |-> "malformed", userId |-> Null],
   [kind |-> "expired", userId |-> 1],
   [kind |-> "invalid", userId |-> 1]}
    \cup {[kind |-> "good", userId |-> u] : u \in 1..(NumUsers + 1)}

\* jwt.verify: the name of the error thrown ("" if none)
jwtVerify(token) ==
  IF token.kind = "expired" THEN "TokenExpiredError"
  ELSE IF token.kind \in {"malformed", "invalid"} THEN "JsonWebTokenError"
  ELSE ""

verifyTokenNoUserLookup(token) ==
  IF jwtVerify(token) = "TokenExpiredError" THEN "Token expired"
  ELSE IF jwtVerify(token) = "JsonWebTokenError" THEN "Invalid token"
  ELSE ""

\* verifyToken: the message of the error thrown ("" if it returns decoded)
verifyToken(token) ==
  IF jwtVerify(token) = "TokenExpiredError" THEN "Token expired"
  ELSE IF jwtVerify(token) = "JsonWebTokenError" THEN "Invalid token"
  ELSE IF token.userId \notin Users THEN "User not found"
  ELSE ""

\* the error socketAuthMiddleware passes to next ("" for next())
socketAuthMiddleware(token) ==
  IF token.kind = "missing" THEN "Authentication required"
  ELSE IF verifyToken(token) # "" THEN "Authentication failed"
  ELSE ""

\* ------------------------------------------------------------ the server
NoReq == [op |-> "none"]

HsNone == [pc |-> "none"]

Idle == [op |-> "init"]

InitServer ==
  /\ userSockets = EmptyMap
  /\ socketUsers = EmptyMap
  /\ connected = {}
  /\ sockUser = [s \in Sockets |-> Null]
  /\ hs = [s \in Sockets |-> HsNone]
  /\ adapter = EmptyMap
  /\ rooms = <<>>
  /\ members = <<>>
  /\ messages = <<>>
  /\ reqs = [s \in Sockets |-> NoReq]
  /\ out = <<>>
  /\ act = Idle

Init == InitServer /\ clients = NoClients

\* the events of the step go out (at most clients.most are followed)
Deliver ==
  /\ clients' = written(clients, out', connected')
  /\ clients'.emitted <= clients.most

SetRegistry(reg) ==
  /\ userSockets' = reg.userSockets
  /\ socketUsers' = reg.socketUsers

\* socket ids are fresh: they are handed out in the order of the handshakes
NextSocket(s) == s = Cardinality({x \in Sockets : hs[x].pc # "none"}) + 1

\* socketAuthMiddleware calls next(error): the socket is not added to the
\* namespace and the "connection" event is not emitted for it
ConnectionRejected(s, token) ==
  /\ NextSocket(s)
  /\ socketAuthMiddleware(token) # ""
  /\ hs' = [hs EXCEPT ![s] = [pc |-> "rejected"]]
  /\ out' = <<Emit("connect_error", {s},
                   [message |-> socketAuthMiddleware(token)])>>
  /\ act' = [op |-> "connection-rejected", s |-> s, token |-> token]
  /\ UNCHANGED <<userSockets, socketUsers, connected, sockUser, adapter, rooms,
                 members, messages, reqs>>
  /\ Deliver

\* socketAuthMiddleware calls next(), then io.on("connection") up to the
\* await: the handshake of socket s succeeded for the user of the token
Connection(s, token) ==
  /\ NextSocket(s)
  /\ socketAuthMiddleware(token) = ""
  /\ sockUser' = [sockUser EXCEPT ![s] = token.userId]
  /\ connected' = connected \cup {s}
  /\ SetRegistry(addUser(Registry, token.userId, s))
  /\ hs' = [hs EXCEPT ![s] = [pc |-> "awaitRooms",
                              had |-> getUserRooms(token.userId)]]
  /\ out' = <<>>
  /\ act' = [op |-> "connection", s |-> s, token |-> token]
  /\ UNCHANGED <<adapter, rooms, members, messages, reqs>>
  /\ Deliver

\* the Store answers roomService.getUserRooms (or fails)
GetUserRoomsReply(s, ok) ==
  /\ hs[s].pc = "awaitRooms"
  /\ hs' = [hs EXCEPT ![s] = [pc |-> "gotRooms", ok |-> ok, had |-> hs[s].had,
                              userRooms |-> IF ok THEN getUserRooms(sockUser[s])
                                            ELSE {}]]
  /\ out' = <<>>
  /\ act' = [op |-> "getUserRooms", s |-> s]
  /\ UNCHANGED <<userSockets, socketUsers, connected, sockUser, adapter, rooms,
                 members, messages, reqs>>
  /\ Deliver

\* a variant that emits user-joined with io.emit instead of
\* socket.broadcast.emit
connectionEmitsJoinedToAll(s) ==
  <<Emit("user-joined", connected, [userId |-> sockUser[s]]),
    Emit("welcome", {s},
         [userId |-> sockUser[s],
          onlineUsers |-> getOnlineUserCount(Registry)]),
    Emit("online-users", connected,
         [users |-> getOnlineUsers(Registry),
          count |-> getOnlineUserCount(Registry)])>>

\* socket.broadcast.emit("user-joined"), socket.emit("welcome") and, after
\* the handlers are registered, io.emit("online-users")
connectionEmits(s) ==
  <<Emit("user-joined", connected \ {s}, [userId |-> sockUser[s]]),
    Emit("welcome", {s},
         [userId |-> sockUser[s],
          onlineUsers |-> getOnlineUserCount(Registry)]),
    Emit("online-users", connected,
         [users |-> getOnlineUsers(Registry),
          count |-> getOnlineUserCount(Registry)])>>

\* io.on("connection") after the await: auto-join, the welcome events, and
\* the registration of the socket's handlers
ConnectionResume(s) ==
  /\ hs[s].pc = "gotRooms"
  /\ adapter' = IF hs[s].ok THEN socketJoinAll(adapter, s, hs[s].userRooms)
                ELSE adapter
  /\ out' = (IF hs[s].ok
             THEN <<Emit("user-rooms", {s}, [rooms |-> hs[s].userRooms])>>
             ELSE <<>>)
            \o connectionEmits(s)
  /\ hs' = [hs EXCEPT ![s] = [pc |-> "active"]]
  /\ act' = [op |-> "connected", s |-> s, ok |-> hs[s].ok, had |-> hs[s].had]
  /\ UNCHANGED <<userSockets, socketUsers, connected, sockUser, rooms, members,
                 messages, reqs>>
  /\ Deliver

\* the socket closes; socket.on("disconnect") runs if it is registered
Disconnect(s) ==
  /\ s \in connected
  /\ connected' = connected \ {s}
  /\ adapter' = leaveAll(adapter, s)
  /\ LET handled == hs[s].pc = "active"
         r == removeUser(Registry, s)
     IN /\ IF handled
           THEN /\ SetRegistry(r.reg)
                /\ out' = IF r.ret # Null /\ ~Truthy(isUserOnline(r.reg, r.ret))
                          THEN <<Emit("user-left", connected \ {s},
                                      [userId |-> r.ret]),
                                 Emit("online-users", connected \ {s},
                                      [users |-> getOnlineUsers(r.reg),
                                       count |-> getOnlineUserCount(r.reg)])>>
                          ELSE <<>>
           ELSE /\ UNCHANGED <<userSockets, socketUsers>>
                /\ out' = <<>>
        /\ act' = [op |-> "disconnect", s |-> s, handled |-> handled,
                   last |-> getUserSockets(Registry, sockUser[s]) = {s}]
  /\ UNCHANGED <<sockUser, hs, rooms, members, messages, reqs>>
  /\ Deliver

\* --------------------------------------------------------- the requests
\* the socket's handlers are registered, it is open, and (a bound of the
\* model) it has no other request in flight
Active(s) == s \in connected /\ hs[s].pc = "active" /\ reqs[s] = NoReq

Ack(s, success, error, data) ==
  Emit("ack", {s}, [success |-> success, error |-> error, data |-> data])

\* a catch block that drops the error without calling back
RejectSilently(s, error) == out' = <<>>

\* the catch block of a handler: callback({success: false, error})
Reject(s, error) == out' = <<Ack(s, FALSE, error, Null)>>

Finish(s) == reqs' = [reqs EXCEPT ![s] = NoReq]

\* messages stored or about to be stored
MessagesDue ==
  Len(messages)
    + Cardinality({s \in Sockets : reqs[s].op # "none" /\ reqs[s].pc = "insert"})
    + Cardinality({<<s, k>> \in Sockets \X {1, 2} :
                     /\ reqs[s].op = "room-messages"
                     /\ reqs[s].items[k].pc = "insert"})

\* socket.on("create-room") up to the end of roomService.createRoom, whose
\* transaction inserts the room and the owner's membership, or neither
CreateRoom(s, name, displayName, isPublic) ==
  /\ Active(s)
  /\ act' = [op |-> "create-room", s |-> s, name |-> name,
             displayName |-> displayName, isPublic |-> isPublic]
  /\ IF createRoomError(name, displayName) # ""
     THEN /\ Reject(s, createRoomError(name, displayName))
          /\ UNCHANGED <<rooms, members, reqs>>
     ELSE IF roomNameTaken(name)
     THEN /\ Reject(s, "Room name already exists")
          /\ UNCHANGED <<rooms, members, reqs>>
     ELSE /\ Len(rooms) < MaxRooms
          /\ rooms' = Append(rooms, [name |-> name, display_name |-> displayName,
                                     is_public |-> isPublic,
                                     created_by |-> sockUser[s]])
          /\ members' = Append(members, [room_id |-> Len(rooms) + 1,
                                         user_id |-> sockUser[s],
                                         role |-> "owner"])
          /\ reqs' = [reqs EXCEPT ![s] = [op |-> "create-room", pc |-> "created",
                                          room |-> Len(rooms) + 1]]
          /\ out' = <<>>
  /\ UNCHANGED <<userSockets, socketUsers, connected, sockUser, hs, adapter,
                 messages>>
  /\ Deliver

roomCreatedEmitsAlways(r) == <<Emit("room-created", connected, [room |-> r])>>

\* if (room.is_public) io.emit("room-created", ...)
roomCreatedEmits(r) ==
  IF rooms[r].is_public
  THEN <<Emit("room-created", connected, [room |-> r])>>
  ELSE <<>>

\* socket.on("create-room") after the await
CreateRoomResume(s) ==
  /\ reqs[s].op = "create-room"
  /\ LET r == reqs[s].room
     IN /\ adapter' = socketJoin(adapter, s, r)
        /\ out' = <<Ack(s, TRUE, "", [room |-> r])>> \o roomCreatedEmits(r)
        /\ act' = [op |-> "create-room-done", s |-> s, room |-> r]
  /\ Finish(s)
  /\ UNCHANGED <<userSockets, socketUsers, connected, sockUser, hs, rooms,
                 members, messages>>
  /\ Deliver

\* socket.on("join-room") up to the end of roomService.joinRoom
JoinRoom(s, r) ==
  /\ Active(s)
  /\ act' = [op |-> "join-room", s |-> s, room |-> r,
             already |-> isRoomMember(r, sockUser[s]), before |-> members]
  /\ IF joinRoomError(getRoomById(r)) # ""
     THEN /\ Reject(s, joinRoomError(getRoomById(r)))
          /\ UNCHANGED <<members, reqs>>
     ELSE /\ members' = insertMemberOnConflictDoNothing(members, r, sockUser[s],
                                                        "member")
          /\ reqs' = [reqs EXCEPT ![s] = [op |-> "join-room", pc |-> "joined",
                                          room |-> r,
                                          already |-> isRoomMember(r, sockUser[s]),
                                          subscribed |-> s \in subscribersOf(r)]]
          /\ out' = <<>>
  /\ UNCHANGED <<userSockets, socketUsers, connected, sockUser, hs, adapter,
                 rooms, messages>>
  /\ Deliver

\* socket.join(roomName), then roomService.getRoomById
JoinRoomSubscribe(s) ==
  /\ reqs[s].op = "join-room" /\ reqs[s].pc = "joined"
  /\ adapter' = socketJoin(adapter, s, reqs[s].room)
  /\ reqs' = [reqs EXCEPT ![s].pc = "history"]
  /\ out' = <<>>
  /\ act' = [op |-> "join-room-subscribe", s |-> s, room |-> reqs[s].room]
  /\ UNCHANGED <<userSockets, socketUsers, connected, sockUser, hs, rooms,
                 members, messages>>
  /\ Deliver

\* the Store answers roomService.getRoomMessages(roomId, 50)
JoinRoomHistory(s) ==
  /\ reqs[s].op = "join-room" /\ reqs[s].pc = "history"
  /\ reqs' = [reqs EXCEPT ![s] =
                [op |-> "join-room", pc |-> "ack", room |-> reqs[s].room,
                 already |-> reqs[s].already,
                 subscribed |-> reqs[s].subscribed, seen |-> Len(messages),
                 history |-> getRoomMessages(reqs[s].room, HistoryLimit)]]
  /\ out' = <<>>
  /\ act' = [op |-> "join-room-history", s |-> s, room |-> reqs[s].room]
  /\ UNCHANGED <<userSockets, socketUsers, connected, sockUser, hs, adapter,
                 rooms, members, messages>>
  /\ Deliver

\* the ack of join-room and the user-joined-room broadcast
JoinRoomAck(s) ==
  /\ reqs[s].op = "join-room" /\ reqs[s].pc = "ack"
  /\ LET r == reqs[s].room
     IN /\ out' = <<Ack(s, TRUE, "", [room |-> r, messages |-> reqs[s].history]),
                    Emit("user-joined-room", subscribersOf(r) \ {s},
                         [roomId |-> r, userId |-> sockUser[s]])>>
        /\ act' = [op |-> "join-room-done", s |-> s, room |-> r,
                   already |-> reqs[s].already, seen |-> reqs[s].seen]
  /\ Finish(s)
  /\ UNCHANGED <<userSockets, socketUsers, connected, sockUser, hs, adapter,
                 rooms, members, messages>>
  /\ Deliver

\* socket.on("leave-room") up to the role check of roomService.leaveRoom
LeaveRoom(s, r) ==
  /\ Active(s)
  /\ LET rows == memberRows(r, sockUser[s])
     IN /\ act' = [op |-> "leave-room", s |-> s, room |-> r,
                   role |-> IF Len(rows) = 0 THEN "none" ELSE rows[1].role]
        /\ IF leaveRoomError(rows) # ""
           THEN /\ Reject(s, leaveRoomError(rows))
                /\ UNCHANGED reqs
           ELSE /\ reqs' = [reqs EXCEPT ![s] = [op |-> "leave-room",
                                                pc |-> "delete", room |-> r]]
                /\ out' = <<>>
  /\ UNCHANGED <<userSockets, socketUsers, connected, sockUser, hs, adapter,
                 rooms, members, messages>>
  /\ Deliver

\* the DELETE of roomService.leaveRoom
LeaveRoomDelete(s) ==
  /\ reqs[s].op = "leave-room" /\ reqs[s].pc = "delete"
  /\ LET left == deleteMember(members, reqs[s].room, sockUser[s])
     IN IF Len(left) = Len(members)
        THEN /\ Reject(s, "Not a member of this room")
             /\ Finish(s)
             /\ UNCHANGED members
        ELSE /\ members' = left
             /\ reqs' = [reqs EXCEPT ![s].pc = "left"]
             /\ out' = <<>>
  /\ act' = [op |-> "leave-room-delete", s |-> s, room |-> reqs[s].room]
  /\ UNCHANGED <<userSockets, socketUsers, connected, sockUser, hs, adapter,
                 rooms, messages>>
  /\ Deliver

\* socket.on("leave-room") after the await
LeaveRoomResume(s) ==
  /\ reqs[s].op = "leave-room" /\ reqs[s].pc = "left"
  /\ LET r == reqs[s].room
         ad == socketLeave(adapter, s, r)
     IN /\ adapter' = ad
        /\ out' = <<Ack(s, TRUE, "", Null),
                    Emit("user-left-room",
                         (IF r \in DOMAIN ad THEN ad[r] ELSE {}) \ {s},
                         [roomId |-> r, userId |-> sockUser[s]])>>
        /\ act' = [op |-> "leave-room-done", s |-> s, room |-> r]
  /\ Finish(s)
  /\ UNCHANGED <<userSockets, socketUsers, connected, sockUser, hs, rooms,
                 members, messages>>
  /\ Deliver

\* the message of an error thrown by the database driver
StoreError == "store error"

\* socket.on("create-room") when the transaction of roomService.createRoom
\* fails (pool.connect, BEGIN, an INSERT or COMMIT throws; ROLLBACK): the
\* validation has passed, nothing is stored, and the handler's catch block
\* runs before socket.join is reached
CreateRoomFails(s, name, displayName, isPublic) ==
  /\ Active(s)
  /\ createRoomError(name, displayName) = ""
  /\ Reject(s, StoreError)
  /\ act' = [op |-> "create-room-failed", s |-> s, call |-> "createRoom"]
  /\ UNCHANGED <<userSockets, socketUsers, connected, sockUser, hs, adapter,
                 rooms, members, messages, reqs>>
  /\ Deliver

\* socket.on("join-room") when a query of roomService.joinRoom throws: a
\* membership row is inserted only by its last query that can fail, so
\* nothing is stored, and the catch block runs before socket.join
JoinRoomFails(s, r) ==
  /\ Active(s)
  /\ Reject(s, StoreError)
  /\ act' = [op |-> "join-room-failed", s |-> s, room |-> r,
             call |-> "joinRoom", already |-> isRoomMember(r, sockUser[s]),
             subscribed |-> s \in subscribersOf(r)]
  /\ UNCHANGED <<userSockets, socketUsers, connected, sockUser, hs, adapter,
                 rooms, members, messages, reqs>>
  /\ Deliver

\* socket.on("join-room") when roomService.getRoomById or getRoomMessages,
\* which are awaited after socket.join, throws
JoinRoomHistoryFails(s) ==
  /\ reqs[s].op = "join-room" /\ reqs[s].pc = "history"
  /\ Reject(s, StoreError)
  /\ Finish(s)
  /\ act' = [op |-> "join-room-failed", s |-> s, room |-> reqs[s].room,
             call |-> "getRoomMessages", already |-> reqs[s].already,
             subscribed |-> reqs[s].subscribed]
  /\ UNCHANGED <<userSockets, socketUsers, connected, sockUser, hs, adapter,
                 rooms, members, messages>>
  /\ Deliver

\* socket.on("leave-room") when roomService.getRoomById or the membership
\* query of roomService.leaveRoom throws
LeaveRoomFails(s, r) ==
  /\ Active(s)
  /\ Reject(s, StoreError)
  /\ act' = [op |-> "leave-room-failed", s |-> s, room |-> r,
             call |-> "leaveRoom"]
  /\ UNCHANGED <<userSockets, socketUsers, connected, sockUser, hs, adapter,
                 rooms, members, messages, reqs>>
  /\ Deliver

\* socket.on("leave-room") when the DELETE of roomService.leaveRoom throws
LeaveRoomDeleteFails(s) ==
  /\ reqs[s].op = "leave-room" /\ reqs[s].pc = "delete"
  /\ Reject(s, StoreError)
  /\ Finish(s)
  /\ act' = [op |-> "leave-room-failed", s |-> s, room |-> reqs[s].room,
             call |-> "leaveRoom"]
  /\ UNCHANGED <<userSockets, socketUsers, connected, sockUser, hs, adapter,
                 rooms, members, messages>>
  /\ Deliver

\* const isMember = roomService.isRoomMember(roomId, userId): the call is
\* not awaited, so isMember is the pending Promise
isMemberOfGetRoomMembers(roomId, userId) == "promise"

\* socket.on("get-room-members") up to the answer of getRoomMembers
GetRoomMembers(s, r) ==
  /\ Active(s)
  /\ act' = [op |-> "get-room-members", s |-> s, room |-> r,
             member |-> isRoomMember(r, sockUser[s])]
  /\ IF ~Truthy(isMemberOfGetRoomMembers(r, sockUser[s]))
     THEN /\ Reject(s, "Not authorized to view room members")
          /\ UNCHANGED reqs
     ELSE /\ reqs' = [reqs EXCEPT ![s] = [op |-> "get-room-members",
                                          pc |-> "members", room |-> r,
                                          member |-> isRoomMember(r, sockUser[s]),
                                          data |-> getRoomMembers(r)]]
          /\ out' = <<>>
  /\ UNCHANGED <<userSockets, socketUsers, connected, sockUser, hs, adapter,
                 rooms, members, messages>>
  /\ Deliver

\* callback({ success: true, data: members })
GetRoomMembersAck(s) ==
  /\ reqs[s].op = "get-room-members"
  /\ out' = <<Ack(s, TRUE, "", [members |-> reqs[s].data])>>
  /\ act' = [op |-> "get-room-members-done", s |-> s, room |-> reqs[s].room,
             member |-> reqs[s].member]
  /\ Finish(s)
  /\ UNCHANGED <<userSockets, socketUsers, connected, sockUser, hs, adapter,
                 rooms, members, messages>>
  /\ Deliver

\* socket.on("room-message") up to the membership check of saveMessage
RoomMessage(s, r, text) ==
  /\ Active(s)
  /\ act' = [op |-> "room-message", s |-> s, room |-> r, text |-> text,
             member |-> isRoomMember(r, sockUser[s])]
  /\ IF textEmpty(text)
     THEN /\ Reject(s, "Message cannot be empty")
          /\ UNCHANGED reqs
     ELSE IF textTooLong(text)
     THEN /\ Reject(s, "Message too long (max 5000 characters)")
          /\ UNCHANGED reqs
     ELSE IF saveMessageError(r, Null, text) # ""
     THEN /\ Reject(s, saveMessageError(r, Null, text))
          /\ UNCHANGED reqs
     ELSE IF r # Null /\ ~isRoomMember(r, sockUser[s])
     THEN /\ Reject(s, "User is not a member of this room")
          /\ UNCHANGED reqs
     ELSE /\ MessagesDue < MaxMessages
          /\ reqs' = [reqs EXCEPT ![s] = [op |-> "room-message", pc |-> "insert",
                                          room |-> r, text |-> text]]
          /\ out' = <<>>
  /\ UNCHANGED <<userSockets, socketUsers, connected, sockUser, hs, adapter,
                 rooms, members, messages>>
  /\ Deliver

\* the INSERT of saveMessage for a room message
RoomMessageInsert(s) ==
  /\ reqs[s].op = "room-message" /\ reqs[s].pc = "insert"
  /\ messages' = Append(messages, [room_id |-> reqs[s].room,
                                   sender_id |-> sockUser[s],
                                   recipient_id |-> Null,
                                   content |-> reqs[s].text])
  /\ reqs' = [reqs EXCEPT ![s] = [op |-> "room-message", pc |-> "saved",
                                  room |-> reqs[s].room, text |-> reqs[s].text,
                                  id |-> Len(messages) + 1]]
  /\ out' = <<>>
  /\ act' = [op |-> "room-message-insert", s |-> s, room |-> reqs[s].room]
  /\ UNCHANGED <<userSockets, socketUsers, connected, sockUser, hs, adapter,
                 rooms, members>>
  /\ Deliver

\* io.to(roomName).emit("room-message", message), then the ack
RoomMessageEmit(s) ==
  /\ reqs[s].op = "room-message" /\ reqs[s].pc = "saved"
  /\ LET message == [id |-> reqs[s].id, roomId |-> reqs[s].room,
                     userId |-> sockUser[s], text |-> reqs[s].text]
     IN out' = <<Emit("room-message", subscribersOf(reqs[s].room), message),
                 Ack(s, TRUE, "", message)>>
  /\ act' = [op |-> "room-message-done", s |-> s, room |-> reqs[s].room,
             id |-> reqs[s].id, text |-> reqs[s].text]
  /\ Finish(s)
  /\ UNCHANGED <<userSockets, socketUsers, connected, sockUser, hs, adapter,
                 rooms, members, messages>>
  /\ Deliver

\* socket.on("room-message") runs again for the next room-message of the
\* socket while the handler of its previous one awaits saveMessage: each
\* call of the async handler is a task of its own
RoomMessageBehind(s, text) ==
  /\ s \in connected /\ hs[s].pc = "active"
  /\ reqs[s].op = "room-message" /\ reqs[s].pc = "insert"
  /\ act' = [op |-> "room-message", s |-> s, room |-> reqs[s].room,
             text |-> text, member |-> isRoomMember(reqs[s].room, sockUser[s])]
  /\ IF textEmpty(text)
     THEN /\ Reject(s, "Message cannot be empty")
          /\ UNCHANGED reqs
     ELSE IF textTooLong(text)
     THEN /\ Reject(s, "Message too long (max 5000 characters)")
          /\ UNCHANGED reqs
     ELSE IF ~isRoomMember(reqs[s].room, sockUser[s])
     THEN /\ Reject(s, "User is not a member of this room")
          /\ UNCHANGED reqs
     ELSE /\ MessagesDue < MaxMessages
          /\ reqs' = [reqs EXCEPT ![s] =
                        [op |-> "room-messages", pc |-> "both",
                         room |-> reqs[s].room,
                         items |-> <<[pc |-> "insert", text |-> reqs[s].text,
                                      id |-> Null],
                                     [pc |-> "insert", text |-> text,
                                      id |-> Null]>>]]
          /\ out' = <<>>
  /\ UNCHANGED <<userSockets, socketUsers, connected, sockUser, hs, adapter,
                 rooms, members, messages>>
  /\ Deliver

\* the INSERT of saveMessage for the k-th of the two room messages: the
\* pool runs the two queries on connections of their own, and either may
\* complete first
PipelineInsert(s, k) ==
  /\ reqs[s].op = "room-messages" /\ reqs[s].items[k].pc = "insert"
  /\ messages' = Append(messages, [room_id |-> reqs[s].room,
                                   sender_id |-> sockUser[s],
                                   recipient_id |-> Null,
                                   content |-> reqs[s].items[k].text])
  /\ reqs' = [reqs EXCEPT ![s].items[k] =
                [pc |-> "saved", text |-> reqs[s].items[k].text,
                 id |-> Len(messages) + 1]]
  /\ out' = <<>>
  /\ act' = [op |-> "room-message-insert", s |-> s, room |-> reqs[s].room]
  /\ UNCHANGED <<userSockets, socketUsers, connected, sockUser, hs, adapter,
                 rooms, members>>
  /\ Deliver

\* the k-th handler resumes: io.to(roomName).emit("room-message"), ack
PipelineEmit(s, k) ==
  /\ reqs[s].op = "room-messages" /\ reqs[s].items[k].pc = "saved"
  /\ LET message == [id |-> reqs[s].items[k].id, roomId |-> reqs[s].room,
                     userId |-> sockUser[s], text |-> reqs[s].items[k].text]
     IN out' = <<Emit("room-message", subscribersOf(reqs[s].room), message),
                 Ack(s, TRUE, "", message)>>
  /\ act' = [op |-> "room-message-done", s |-> s, room |-> reqs[s].room,
             id |-> reqs[s].items[k].id, text |-> reqs[s].items[k].text,
             nth |-> k]
  /\ reqs' = IF reqs[s].items[3 - k].pc = "done"
             THEN [reqs EXCEPT ![s] = NoReq]
             ELSE [reqs EXCEPT ![s].items[k].pc = "done"]
  /\ UNCHANGED <<userSockets, socketUsers, connected, sockUser, hs, adapter,
                 rooms, members, messages>>
  /\ Deliver

\* socket.on("direct-message") up to the INSERT of saveMessage
DirectMessage(s, recipientId, text) ==
  /\ Active(s)
  /\ act' = [op |-> "direct-message", s |-> s, recipientId |-> recipientId,
             text |-> text]
  /\ IF recipientId = Null
     THEN /\ Reject(s, "Recipient ID is required")
          /\ UNCHANGED <<reqs, messages>>
     ELSE IF textEmpty(text)
     THEN /\ Reject(s, "Message cannot be empty")
          /\ UNCHANGED <<reqs, messages>>
     ELSE IF textTooLong(text)
     THEN /\ Reject(s, "Message too long (max 5000 characters)")
          /\ UNCHANGED <<reqs, messages>>
     ELSE IF saveMessageError(Null, recipientId, text) # ""
     THEN /\ Reject(s, saveMessageError(Null, recipientId, text))
          /\ UNCHANGED <<reqs, messages>>
     ELSE IF ~messageKeysOk(recipientId)
     THEN /\ Reject(s, "violates foreign key constraint")
          /\ UNCHANGED <<reqs, messages>>
     ELSE /\ MessagesDue < MaxMessages
          /\ messages' = Append(messages, [room_id |-> Null,
                                           sender_id |-> sockUser[s],
                                           recipient_id |-> recipientId,
                                           content |-> text])
          /\ reqs' = [reqs EXCEPT ![s] = [op |-> "direct-message", pc |-> "saved",
                                          recipientId |-> recipientId,
                                          text |-> text,
                                          id |-> Len(messages) + 1]]
          /\ out' = <<>>
  /\ UNCHANGED <<userSockets, socketUsers, connected, sockUser, hs, adapter,
                 rooms, members>>
  /\ Deliver

directMessageEmitsNoEcho(s, recipientId, message) ==
  LET ids == InOrder(getUserSockets(Registry, recipientId))
  IN [i \in 1..Len(ids) |-> Emit("direct-message", {ids[i]}, message)]

\* recipientSockets.forEach(io.to(socketId).emit), then socket.emit
directMessageEmits(s, recipientId, message) ==
  LET ids == InOrder(getUserSockets(Registry, recipientId))
  IN [i \in 1..Len(ids) |-> Emit("direct-message", {ids[i]}, message)]
     \o <<Emit("direct-message", {s}, message)>>

\* socket.on("direct-message") after the await
DirectMessageEmit(s) ==
  /\ reqs[s].op = "direct-message"
  /\ LET message == [id |-> reqs[s].id, senderId |-> sockUser[s],
                     recipientId |-> reqs[s].recipientId, text |-> reqs[s].text]
     IN out' = directMessageEmits(s, reqs[s].recipientId, message)
               \o <<Ack(s, TRUE, "", message)>>
  /\ act' = [op |-> "direct-message-done", s |-> s,
             recipientId |-> reqs[s].recipientId, id |-> reqs[s].id,
             text |-> reqs[s].text]
  /\ Finish(s)
  /\ UNCHANGED <<userSockets, socketUsers, connected, sockUser, hs, adapter,
                 rooms, members, messages>>
  /\ Deliver

\* socket.on("get-direct-messages") up to the answer of getDirectMessages
GetDirectMessages(s, otherUserId) ==
  /\ Active(s)
  /\ act' = [op |-> "get-direct-messages", s |-> s, otherUserId |-> otherUserId]
  /\ IF otherUserId = Null
     THEN /\ Reject(s, "Other user ID is required")
          /\ UNCHANGED reqs
     ELSE /\ reqs' = [reqs EXCEPT ![s] =
                       [op |-> "get-direct-messages", pc |-> "rows",
                        otherUserId |-> otherUserId,
                        seen |-> Len(messages),
                        data |-> getDirectMessages(sockUser[s], otherUserId,
                                                   HistoryLimit)]]
          /\ out' = <<>>
  /\ UNCHANGED <<userSockets, socketUsers, connected, sockUser, hs, adapter,
                 rooms, members, messages>>
  /\ Deliver

\* callback({ success: true, data: messages })
GetDirectMessagesAck(s) ==
  /\ reqs[s].op = "get-direct-messages"
  /\ out' = <<Ack(s, TRUE, "", [messages |-> reqs[s].data])>>
  /\ act' = [op |-> "get-direct-messages-done", s |-> s,
             otherUserId |-> reqs[s].otherUserId, seen |-> reqs[s].seen]
  /\ Finish(s)
  /\ UNCHANGED <<userSockets, socketUsers, connected, sockUser, hs, adapter,
                 rooms, members, messages>>
  /\ Deliver

\* getPublicRooms: the ids of the rooms WHERE is_public, newest first
getPublicRooms ==
  Reverse(SelectSeq([i \in 1..Len(rooms) |-> i], LAMBDA i : rooms[i].is_public))

\* what a client passes before the acknowledgement function: nothing
\* (emit(ev, ack): the handler's first argument is the function), null or an
\* object (emit(ev, data, ack): the first argument is the data)
FirstArgs == {"function", "null", "object"}

\* socket.on("get-public-rooms", async (callback) => ...) up to the answer of
\* getPublicRooms; callback is the first argument the client sent
GetPublicRooms(s, callback) ==
  /\ Active(s)
  /\ reqs' = [reqs EXCEPT ![s] = [op |-> "get-public-rooms", pc |-> "rows",
                                  callback |-> callback,
                                  data |-> getPublicRooms]]
  /\ out' = <<>>
  /\ act' = [op |-> "get-public-rooms", s |-> s, callback |-> callback]
  /\ UNCHANGED <<userSockets, socketUsers, connected, sockUser, hs, adapter,
                 rooms, members, messages>>
  /\ Deliver

\* if (callback) callback({ success: true, data: rooms }): calling what is
\* not a function throws a TypeError, and so does the call in the catch
\* block, which leaves the async handler rejected
GetPublicRoomsAck(s) ==
  /\ reqs[s].op = "get-public-rooms"
  /\ out' = IF reqs[s].callback = "function"
            THEN <<Ack(s, TRUE, "", [rooms |-> reqs[s].data])>>
            ELSE <<>>
  /\ act' = [op |-> "get-public-rooms-done", s |-> s,
             callback |-> reqs[s].callback,
             escaped |-> (Truthy(reqs[s].callback)
                            /\ reqs[s].callback # "function")]
  /\ Finish(s)
  /\ UNCHANGED <<userSockets, socketUsers, connected, sockUser, hs, adapter,
                 rooms, members, messages>>
  /\ Deliver

\* the payload of a typing event: none, or an object with a roomId (room
\* MaxRooms + 1 does not exist)
TypingPayloads ==
  {[present |-> FALSE, roomId |-> Null]}
    \cup {[present |-> TRUE, roomId |-> r] : r \in 1..(MaxRooms + 1)}

\* the payload of the legacy message event: none, or an object with a text
MessagePayloads ==
  {[present |-> FALSE, text |-> [len |-> 0, blank |-> TRUE]],
   [present |-> TRUE, text |-> [len |-> 1, blank |-> FALSE]]}

\* an error nobody catches ends the Node process: every socket closes, the
\* registry and the socket.io rooms are gone, the tables remain
ProcessExit ==
  /\ connected' = {}
  /\ userSockets' = EmptyMap
  /\ socketUsers' = EmptyMap
  /\ adapter' = EmptyMap
  /\ reqs' = [x \in Sockets |-> NoReq]
  /\ hs' = [x \in Sockets |-> IF hs[x].pc = "none" THEN HsNone
                               ELSE [pc |-> "closed"]]
  /\ UNCHANGED <<sockUser, rooms, members, messages>>

typingHandlerToAll(s, data, exits, evIn, evOut) ==
  /\ Active(s)
  /\ act' = [op |-> evIn, s |-> s, data |-> data,
             escaped |-> ~data.present, exits |-> (~data.present /\ exits)]
  /\ IF data.present
     THEN /\ ~exits
          /\ out' = <<Emit(evOut, subscribersOf(data.roomId),
                           [roomId |-> data.roomId, userId |-> sockUser[s]])>>
          /\ UNCHANGED <<userSockets, socketUsers, connected, sockUser, hs,
                         adapter, rooms, members, messages, reqs>>
     ELSE /\ out' = <<>>
          /\ IF exits
             THEN ProcessExit
             ELSE UNCHANGED <<userSockets, socketUsers, connected, sockUser, hs,
                              adapter, rooms, members, messages, reqs>>
  /\ Deliver

\* socket.on("typing-room") and socket.on("stop-typing-room"), which differ
\* by the names of the events only: async (data) => { const { roomId } = data;
\* socket.to(roomName).emit(...) } without try. Destructuring a missing
\* payload throws a TypeError that rejects the handler's promise; Node then
\* warns or exits, depending on its version and flags (exits)
typingHandler(s, data, exits, evIn, evOut) ==
  /\ Active(s)
  /\ act' = [op |-> evIn, s |-> s, data |-> data,
             escaped |-> ~data.present, exits |-> (~data.present /\ exits)]
  /\ IF data.present
     THEN /\ ~exits
          /\ out' = <<Emit(evOut, subscribersOf(data.roomId) \ {s},
                           [roomId |-> data.roomId, userId |-> sockUser[s]])>>
          /\ UNCHANGED <<userSockets, socketUsers, connected, sockUser, hs,
                         adapter, rooms, members, messages, reqs>>
     ELSE /\ out' = <<>>
          /\ IF exits
             THEN ProcessExit
             ELSE UNCHANGED <<userSockets, socketUsers, connected, sockUser, hs,
                              adapter, rooms, members, messages, reqs>>
  /\ Deliver

TypingRoom(s, data, exits) ==
  typingHandler(s, data, exits, "typing-room", "user-typing-room")

StopTypingRoom(s, data, exits) ==
  typingHandler(s, data, exits, "stop-typing-room", "user-stop-typing-room")

\* socket.on("message", (data) => { ... data.text ... io.emit("message") }):
\* reading text of a missing payload throws in the listener, synchronously,
\* an exception nobody catches
LegacyMessage(s, data) ==
  /\ Active(s)
  /\ act' = [op |-> "message", s |-> s, data |-> data,
             escaped |-> ~data.present, exits |-> ~data.present]
  /\ IF data.present
     THEN /\ out' = <<Emit("message", connected,
                           [userId |-> sockUser[s], text |-> data.text])>>
          /\ UNCHANGED <<userSockets, socketUsers, connected, sockUser, hs,
                         adapter, rooms, members, messages, reqs>>
     ELSE /\ out' = <<>>
          /\ ProcessExit
  /\ Deliver

\* the events of a client that expect an acknowledgement
RequestEvents ==
  {"create-room", "join-room", "leave-room", "get-room-members",
   "get-public-rooms", "room-message", "direct-message", "get-direct-messages"}

\* an event of the client arrives while the connection handler awaits
\* getUserRooms: the socket.on calls have not run yet, the event has no
\* listener and is dropped
Unhandled(s, ev) ==
  /\ s \in connected
  /\ hs[s].pc \in {"awaitRooms", "gotRooms"}
  /\ out' = <<>>
  /\ act' = [op |-> "unhandled", s |-> s, ev |-> ev]
  /\ UNCHANGED <<userSockets, socketUsers, connected, sockUser, hs, adapter,
                 rooms, members, messages, reqs>>
  /\ Deliver

\* the life of a connection
Lifecycle ==
  \/ \E s \in Sockets, token \in Tokens : Connection(s, token)
  \/ \E s \in Sockets, ok \in BOOLEAN : GetUserRoomsReply(s, ok)
  \/ \E s \in Sockets : ConnectionResume(s)
  \/ \E s \in Sockets : Disconnect(s)

\* the handshakes that fail
Rejecting ==
  \E s \in Sockets, token \in Tokens : ConnectionRejected(s, token)

\* the requests that subscribe a socket to a room
Subscribing ==
  \/ \E s \in Sockets, name \in RoomNames, displayName \in DisplayNames,
          isPublic \in BOOLEAN :
       CreateRoom(s, name, displayName, isPublic)
  \/ \E s \in Sockets : CreateRoomResume(s)
  \/ \E s \in Sockets, r \in RoomIds : JoinRoom(s, r)
  \/ \E s \in Sockets : JoinRoomSubscribe(s)
  \/ \E s \in Sockets : JoinRoomHistory(s)
  \/ \E s \in Sockets : JoinRoomAck(s)

Leaving ==
  \/ \E s \in Sockets, r \in RoomIds : LeaveRoom(s, r)
  \/ \E s \in Sockets : LeaveRoomDelete(s)
  \/ \E s \in Sockets : LeaveRoomResume(s)

\* joining and leaving rooms that exist
Membership ==
  \/ \E s \in Sockets, r \in RoomIds : JoinRoom(s, r)
  \/ \E s \in Sockets : JoinRoomSubscribe(s)
  \/ \E s \in Sockets : JoinRoomHistory(s)
  \/ \E s \in Sockets : JoinRoomAck(s)
  \/ Leaving

\* creating a room under a well-formed name
Founding ==
  \/ \E s \in Sockets, isPublic \in BOOLEAN :
       CreateRoom(s, <<"g", "e", "n">>, "General", isPublic)
  \/ \E s \in Sockets : CreateRoomResume(s)

\* the room requests whose Store call fails
StoreFailing ==
  \/ \E s \in Sockets, name \in RoomNames, displayName \in DisplayNames,
          isPublic \in BOOLEAN :
       CreateRoomFails(s, name, displayName, isPublic)
  \/ \E s \in Sockets, r \in RoomIds : JoinRoomFails(s, r)
  \/ \E s \in Sockets : JoinRoomHistoryFails(s)
  \/ \E s \in Sockets, r \in RoomIds : LeaveRoomFails(s, r)
  \/ \E s \in Sockets : LeaveRoomDeleteFails(s)

Listing ==
  \/ \E s \in Sockets, r \in RoomIds : GetRoomMembers(s, r)
  \/ \E s \in Sockets : GetRoomMembersAck(s)

PublicListing ==
  \/ \E s \in Sockets, callback \in FirstArgs : GetPublicRooms(s, callback)
  \/ \E s \in Sockets : GetPublicRoomsAck(s)

\* events that arrive before the handlers are registered
Early ==
  \E s \in Sockets, ev \in RequestEvents : Unhandled(s, ev)

Typing ==
  \/ \E s \in Sockets, data \in TypingPayloads, exits \in BOOLEAN :
       TypingRoom(s, data, exits)
  \/ \E s \in Sockets, data \in TypingPayloads, exits \in BOOLEAN :
       StopTypingRoom(s, data, exits)

Legacy ==
  \E s \in Sockets, data \in MessagePayloads : LegacyMessage(s, data)

RoomMessaging ==
  \/ \E s \in Sockets, r \in 0..MaxRooms, text \in Texts :
       RoomMessage(s, r, text)
  \/ \E s \in Sockets : RoomMessageInsert(s)
  \/ \E s \in Sockets : RoomMessageEmit(s)

\* two room messages of one socket in flight together
Pipelining ==
  \/ \E s \in Sockets, text \in Texts : RoomMessageBehind(s, text)
  \/ \E s \in Sockets, k \in {1, 2} : PipelineInsert(s, k)
  \/ \E s \in Sockets, k \in {1, 2} : PipelineEmit(s, k)

DirectMessaging ==
  \/ \E s \in Sockets, recipientId \in 0..(NumUsers + 1), text \in Texts :
       DirectMessage(s, recipientId, text)
  \/ \E s \in Sockets : DirectMessageEmit(s)
  \/ \E s \in Sockets, otherUserId \in 0..(NumUsers + 1) :
       GetDirectMessages(s, otherUserId)
  \/ \E s \in Sockets : GetDirectMessagesAck(s)

Next ==
  \/ Lifecycle
  \/ Rejecting
  \/ Subscribing
  \/ Leaving
  \/ StoreFailing
  \/ Listing
  \/ PublicListing
  \/ Early
  \/ Typing
  \/ Legacy
  \/ RoomMessaging
  \/ Pipelining
  \/ DirectMessaging

Spec == Init /\ [][Next]_vars

\* The requests touch disjoint parts of the state (presence registry, room
\* subscriptions and memberships, messages): each of the specifications below
\* runs the life of the connections with the requests that read or write the
\* part concerned.

\* connections, and the requests that subscribe
SpecPresence == Init /\ [][Lifecycle \/ Subscribing]_vars

\* handshakes that succeed or fail, and the requests that subscribe
SpecAuth == Init /\ [][Lifecycle \/ Rejecting \/ Subscribing]_vars

\* connections, events sent at any time after the handshake, and the
\* requests that list
SpecAcks ==
  Init /\ [][Lifecycle \/ Early \/ Subscribing \/ Listing \/ PublicListing]_vars

\* connections, the requests that subscribe, and the events whose handlers
\* have no try block or misuse their callback
SpecErrors ==
  Init /\ [][Lifecycle \/ Subscribing \/ PublicListing \/ Typing \/ Legacy]_vars

\* connections, and the requests on rooms and memberships
SpecRooms == Init /\ [][Lifecycle \/ Subscribing \/ Leaving \/ Listing]_vars

\* connections, memberships and room messages
SpecRoomMessages ==
  Init /\ [][Lifecycle \/ Founding \/ Membership \/ RoomMessaging]_vars

\* the requests that store a message
Storing ==
  \/ RoomMessaging
  \/ \E s \in Sockets, recipientId \in 0..(NumUsers + 1), text \in Texts :
       DirectMessage(s, recipientId, text)
  \/ \E s \in Sockets : DirectMessageEmit(s)

\* the server once socket 1 of user 1 and socket 2 of user 2 have connected
\* and socket 1 has created the public room "gen"
InitChatServer ==
  /\ userSockets = (1 :> {1}) @@ (2 :> {2})
  /\ socketUsers = (1 :> 1) @@ (2 :> 2)
  /\ connected = {1, 2}
  /\ sockUser = [s \in Sockets |-> IF s \in {1, 2} THEN s ELSE Null]
  /\ hs = [s \in Sockets |-> IF s \in {1, 2} THEN [pc |-> "active"] ELSE HsNone]
  /\ adapter = (1 :> {1})
  /\ rooms = <<[name |-> <<"g", "e", "n">>, display_name |-> "General",
                is_public |-> TRUE, created_by |-> 1]>>
  /\ members = <<[room_id |-> 1, user_id |-> 1, role |-> "owner"]>>
  /\ messages = <<>>
  /\ reqs = [s \in Sockets |-> NoReq]
  /\ out = <<Ack(1, TRUE, "", [room |-> 1]), Emit("room-created", {1, 2}, [room |-> 1])>>
  /\ act = [op |-> "create-room-done", s |-> 1, room |-> 1]

InitChat == InitChatServer /\ clients = NoClients

\* from there, the requests that store a message
SpecMessages == InitChat /\ [][Storing]_vars

\* from there, room messages, one or two of a socket at a time
SpecPipeline == InitChat /\ [][RoomMessaging \/ Pipelining]_vars

\* the events of a room, followed to the clients
RoomEvents == {"room-message", "user-joined-room", "user-left-room"}

InitOrdering ==
  /\ InitChatServer
  /\ clients = [NoClients EXCEPT !.keeps = RoomEvents, !.most = MaxRoomEvents]

\* from there, room messages, joining and leaving, with the events of the
\* room followed
SpecOrdering == InitOrdering /\ [][RoomMessaging \/ Membership]_vars

\* the requests that read a conversation
Reading ==
  \/ \E s \in Sockets, otherUserId \in 0..(NumUsers + 1) :
       GetDirectMessages(s, otherUserId)
  \/ \E s \in Sockets : GetDirectMessagesAck(s)

\* from there, the requests that store a message and those that read a
\* conversation
SpecConversations == InitChat /\ [][Storing \/ Reading]_vars

\* connections and direct messages
SpecDirect == Init /\ [][Lifecycle \/ DirectMessaging]_vars

\* connections, and the room requests with a Store that may fail
SpecStoreFailure ==
  Init /\ [][Lifecycle \/ Subscribing \/ Leaving \/ StoreFailing]_vars

\* the presence events, followed to the clients
PresenceEvents == {"online-users", "user-joined", "user-left"}

InitPresence ==
  InitServer /\ clients = [NoClients EXCEPT !.keeps = PresenceEvents]

\* connections and disconnections, with the presence events followed
SpecSnapshots == InitPresence /\ [][Lifecycle]_vars

\* the same, where the Store answers getUserRooms and the handler resumes
SpecSnapshotsFair ==
  /\ SpecSnapshots
  /\ \A s \in Sockets :
       /\ WF_vars(\E ok \in BOOLEAN : GetUserRoomsReply(s, ok))
       /\ WF_vars(ConnectionResume(s))

\* ------------------------------------- the tracking service on its own
\* any sequence of addUser and removeUser calls, with any arguments
TrackAdd(u, s) ==
  /\ SetRegistry(addUser(Registry, u, s))
  /\ act' = [op |-> "addUser", s |-> s, userId |-> u]
  /\ UNCHANGED <<connected, sockUser, hs, adapter, rooms, members, messages,
                 reqs, out>>
  /\ Deliver

TrackRemove(s) ==
  /\ LET r == removeUser(Registry, s)
     IN /\ SetRegistry(r.reg)
        /\ act' = [op |-> "removeUser", s |-> s, ret |-> r.ret]
  /\ UNCHANGED <<connected, sockUser, hs, adapter, rooms, members, messages,
                 reqs, out>>
  /\ Deliver

TrackNext ==
  \/ \E u \in Users, s \in Sockets : TrackAdd(u, s)
  \/ \E s \in Sockets : TrackRemove(s)

SpecTracking == Init /\ [][TrackNext]_vars

\* ------------------------------------------------------------------ C1
\* C1: after any sequence of addUser and removeUser calls, isUserOnline(u)
\* is truthy exactly when getUserSockets(u) is not empty, for every user u.
C1_OnlineIffSockets ==
  \A u \in Users :
    Truthy(isUserOnline(Registry, u)) <=> getUserSockets(Registry, u) # {}

\* a user is online with two sockets while another, whose only socket was
\* just removed, is not
C1_Witness ==
  /\ act.op = "removeUser"
  /\ act.ret # Null
  /\ ~Truthy(isUserOnline(Registry, act.ret))
  /\ \E u \in Users : Cardinality(getUserSockets(Registry, u)) = 2

\* no handler is in progress: every connected socket has its handlers
\* registered and no request is in flight
Settled ==
  /\ \A s \in Sockets : reqs[s] = NoReq
  /\ \A s \in connected : hs[s].pc = "active"

\* sockets that received an event named ev in the last step
ReceivedAny(ev) == UNION {Received(out[i]) : i \in Events(ev)}

AckOf(s) == {i \in Events("ack") : out[i].to = {s}}

\* ------------------------------------------------------------------ C2
\* C2: whatever the interleaving of handshakes, Store replies and closes, a
\* user is in the presence registry exactly when one of its sockets is still
\* connected, and no closed socket is left in the registry.
C2_PresenceIffConnected ==
  /\ \A u \in Users :
       u \in DOMAIN userSockets <=> \E s \in connected : sockUser[s] = u
  /\ \A s \in Sockets \ connected :
       /\ s \notin DOMAIN socketUsers
       /\ \A u \in Users : s \notin getUserSockets(Registry, u)

\* ------------------------------------------------------------------ C3
\* C3: when a socket closes and it was the last registered socket of its
\* user, exactly one user-left for that user is emitted and every socket
\* still connected receives it; when the user has another registered socket,
\* no user-left is emitted.
C3_UserLeftOnLastClose ==
  act.op = "disconnect" =>
    LET left == {i \in Events("user-left") : out[i].p.userId = sockUser[act.s]}
    IN IF act.last
       THEN /\ Cardinality(left) = 1
            /\ \A i \in left : Received(out[i]) = connected
       ELSE Events("user-left") = {}

\* ------------------------------------------------------------------ C7
\* C7: in every reachable state a closed socket is in no room's subscriber
\* set, also when a Store call of that socket was in flight when it closed.
C7_ClosedNotSubscribed ==
  \A r \in DOMAIN adapter : adapter[r] \subseteq connected

\* ------------------------------------------------------------------ C4
\* C4: the sockets that receive an accepted room-message are exactly the
\* sockets subscribed to the room, and the sending socket is one of them,
\* however its user became a member of the room.
C4_FanOutIsSubscribersWithSender ==
  (act.op = "room-message-done" /\ act.s \in connected /\ Settled) =>
    /\ Cardinality(Events("room-message")) = 1
    /\ ReceivedAny("room-message") = subscribersOf(act.room) \cap connected
    /\ act.s \in ReceivedAny("room-message")

C8_NonMemberRejected ==
  /\ (act.op = "get-room-members" /\ roomExists(act.room) /\ ~act.member) =>
       /\ reqs[act.s] = NoReq
       /\ Cardinality(AckOf(act.s)) = 1
       /\ \A i \in AckOf(act.s) : ~out[i].p.success
  /\ (act.op = "get-room-members-done" /\ roomExists(act.room)) => act.member

\* ------------------------------------------------------------------ C9
\* C9 as claimed: a room-message is accepted exactly when the caller is a
\* member of the room and its text has 1 to 5000 characters.
C9_AcceptedIffMemberAndLength ==
  act.op = "room-message" =>
    (reqs[act.s].op = "room-message"
       <=> (act.member /\ 1 <= act.text.len /\ act.text.len <= MaxMessageLength))

\* C9 as amended: a room-message is accepted exactly when the caller is a
\* member of the room and its text is not all white space and has at most
\* 5000 characters; a rejected one gets a failure ack to the caller alone and
\* stores and emits nothing; an accepted one is stored once, with its sender,
\* room and text, and emitted once.
C9_AcceptedIffMemberAndText ==
  [][/\ act'.op = "room-message" =>
          LET ok == /\ act'.member
                    /\ ~act'.text.blank
                    /\ 1 <= act'.text.len
                    /\ act'.text.len <= MaxMessageLength
          IN /\ reqs'[act'.s].op = "room-message" <=> ok
             /\ messages' = messages
             /\ Events("room-message")' = {}
             /\ ~ok => /\ reqs' = reqs
                       /\ Len(out') = 1
                       /\ out'[1].ev = "ack"
                       /\ out'[1].to = {act'.s}
                       /\ ~out'[1].p.success
     /\ act'.op = "room-message-insert" =>
          /\ Len(messages') = Len(messages) + 1
          /\ SubSeq(messages', 1, Len(messages)) = messages
          /\ messages'[Len(messages')] =
               [room_id |-> reqs[act'.s].room, sender_id |-> sockUser[act'.s],
                recipient_id |-> Null, content |-> reqs[act'.s].text]
     /\ act'.op = "room-message-done" =>
          /\ messages' = messages
          /\ Cardinality(Events("room-message")') = 1
          /\ \E i \in 1..Len(out') :
               /\ out'[i].ev = "ack"
               /\ out'[i].to = {act'.s}
               /\ out'[i].p.success]_vars

\* a member's room message was stored and a subscriber received it
C9_Witness ==
  /\ act.op = "room-message-done"
  /\ Len(messages) = 1
  /\ ReceivedAny("room-message") # {}

\* ----------------------------------------------------------------- C10
\* C10 as claimed: a direct message from a socket of A to B is received by
\* every connected socket of B and every connected socket of A, and by no
\* other socket.
C10_DeliveredToAllSocketsOfBoth ==
  (act.op = "direct-message-done" /\ Settled) =>
    ReceivedAny("direct-message") =
      {x \in connected : sockUser[x] \in {sockUser[act.s], act.recipientId}}

\* C10 as amended: a direct message from a socket of A to B is received by
\* every connected socket of B and by the sending socket (if it is still
\* open), and by no other socket: the other sockets of A do not receive it.
C10_DeliveredToRecipientAndSender ==
  act.op = "direct-message-done" =>
    ReceivedAny("direct-message") =
      {x \in connected : sockUser[x] = act.recipientId}
        \cup ({act.s} \cap connected)

\* a direct message reached the recipient's socket and the sender's
C10_Witness ==
  /\ act.op = "direct-message-done"
  /\ act.recipientId # sockUser[act.s]
  /\ act.s \in ReceivedAny("direct-message")
  /\ \E x \in ReceivedAny("direct-message") : sockUser[x] = act.recipientId

\* ----------------------------------------------------------------- C11
\* the direct messages stored between users a and b, oldest first
DirectBetween(a, b) ==
  SelectSeq([i \in 1..Len(messages) |-> i],
            LAMBDA i : /\ messages[i].room_id = Null
                       /\ {messages[i].sender_id, messages[i].recipient_id} = {a, b})

InSeq(x, seq) == \E i \in 1..Len(seq) : seq[i] = x

\* C11: a direct message from an open socket of A to a user B who has no
\* connected socket is stored with its sender, recipient and text, and a
\* get-direct-messages between A and B (asked by either) returns it; the
\* only socket that receives the direct-message event is the sender's, which
\* also gets one ack, a success; and the ack of a get-direct-messages lists
\* every direct message stored between the two users when it queried.
C11_OfflineRecipientStoredAndEchoed ==
  /\ (/\ act.op = "direct-message-done"
      /\ act.s \in connected
      /\ \A x \in connected : sockUser[x] # act.recipientId) =>
       /\ act.id \in 1..Len(messages)
       /\ messages[act.id] = [room_id |-> Null, sender_id |-> sockUser[act.s],
                              recipient_id |-> act.recipientId,
                              content |-> act.text]
       /\ InSeq(act.id, getDirectMessages(sockUser[act.s], act.recipientId,
                                          HistoryLimit))
       /\ InSeq(act.id, getDirectMessages(act.recipientId, sockUser[act.s],
                                          HistoryLimit))
       /\ ReceivedAny("direct-message") = {act.s}
       /\ Cardinality(AckOf(act.s)) = 1
       /\ \A i \in AckOf(act.s) : out[i].p.success /\ out[i].p.data.id = act.id
  /\ act.op = "get-direct-messages-done" =>
       /\ Cardinality(AckOf(act.s)) = 1
       /\ \A i \in AckOf(act.s) :
            /\ out[i].p.success
            /\ out[i].p.data.messages =
                 SelectSeq(DirectBetween(sockUser[act.s], act.otherUserId),
                           LAMBDA m : m <= act.seen)

\* the sender of a stored direct message to a user without connected socket
\* asked for the conversation and got the message
C11_Witness ==
  /\ act.op = "get-direct-messages-done"
  /\ act.otherUserId \in Users
  /\ act.otherUserId # sockUser[act.s]
  /\ \A x \in connected : sockUser[x] # act.otherUserId
  /\ \E i \in AckOf(act.s) :
       \E k \in 1..Len(out[i].p.data.messages) :
         messages[out[i].p.data.messages[k]].sender_id = sockUser[act.s]

\* ----------------------------------------------------------------- C12
\* the messages stored for room r, oldest first
RoomHistory(r) ==
  SelectSeq([i \in 1..Len(messages) |-> i], LAMBDA i : messages[i].room_id = r)

\* the last n elements of a sequence
Newest(seq, n) ==
  IF Len(seq) <= n THEN seq ELSE SubSeq(seq, Len(seq) - n + 1, Len(seq))

\* C12: a room message that was accepted is stored with its sender and its
\* text and is in the room's history from then on; for every limit the
\* history query returns the newest `limit` messages of the room (all of
\* them when there are no more than `limit`), oldest first; and the ack of
\* join-room carries the history of the room as it was when it was queried.
C12_HistoryRoundTrip ==
  /\ act.op = "room-message-done" =>
       /\ InSeq(act.id, getRoomMessages(act.room, HistoryLimit))
       /\ messages[act.id].sender_id = sockUser[act.s]
       /\ messages[act.id].content = act.text
       /\ messages[act.id].room_id = act.room
  /\ \A r \in RoomIds, limit \in 0..(MaxMessages + 1) :
       LET h == getRoomMessages(r, limit)
       IN /\ h = Newest(RoomHistory(r), limit)
          /\ \A i, j \in 1..Len(h) : i < j => h[i] < h[j]
  /\ act.op = "join-room-done" =>
       \A i \in AckOf(act.s) :
         out[i].p.data.messages =
           Newest(SelectSeq(RoomHistory(act.room), LAMBDA m : m <= act.seen),
                  HistoryLimit)

\* a user joined a room that holds two messages and got both, the older
\* first, while a query limited to one message returns the newer
C12_Witness ==
  /\ act.op = "join-room-done"
  /\ \E i \in AckOf(act.s) : out[i].p.data.messages = <<1, 2>>
  /\ getRoomMessages(act.room, 1) = <<2>>

C14_BadCredentialRejected ==
  [][/\ act'.op = "connection" =>
          /\ act'.token.kind = "good"
          /\ act'.token.userId \in Users
          /\ sockUser'[act'.s] = act'.token.userId
     /\ act'.op = "connection-rejected" =>
          /\ \/ act'.token.kind \in {"missing", "malformed", "expired", "invalid"}
             \/ act'.token.userId \notin Users
          /\ UNCHANGED <<userSockets, socketUsers, connected, sockUser, adapter,
                         rooms, members, messages, reqs>>
          /\ Events("user-joined")' = {}
          /\ Events("online-users")' = {}
          /\ \A i \in 1..Len(out') : Received(out[i])' = {}
     /\ \A s \in Sockets :
          hs[s].pc = "rejected" => (hs'[s].pc = "rejected" /\ act'.s # s)
     /\ \A s \in Sockets :
          hs'[s].pc = "rejected" =>
            /\ s \notin connected'
            /\ sockUser'[s] = Null
            /\ reqs'[s] = NoReq
            /\ s \notin DOMAIN socketUsers'
            /\ \A u \in DOMAIN userSockets' : s \notin userSockets'[u]
            /\ \A r \in DOMAIN adapter' : s \notin adapter'[r]]_vars

\* a handshake was rejected and, later, another socket created a room and was subscribed to it
C14_Witness ==
  /\ hs[1].pc = "rejected"
  /\ act.op = "create-room-done"
  /\ act.s = 2
  /\ 2 \in subscribersOf(act.room)

\* ----------------------------------------------------------------- C15
\* the steps in which the server is handed a request event of a client
RequestArrivals ==
  {"unhandled", "create-room", "join-room", "leave-room", "get-room-members",
   "get-public-rooms", "room-message", "direct-message", "get-direct-messages"}

\* the last steps of the handlers that work across several steps
RequestDone ==
  {"create-room-done", "join-room-done", "leave-room-delete", "leave-room-done",
   "get-room-members-done", "get-public-rooms-done", "room-message-done",
   "direct-message-done", "get-direct-messages-done"}

\* C15: a request event sent with an acknowledgement at any time after the
\* handshake succeeded is answered: the step that receives it on an open
\* socket either acks it, once, or leaves its handler in progress, and the
\* step that ends a handler on an open socket acks it, once.
C15_EveryRequestAcked ==
  /\ (act.op \in RequestArrivals /\ act.s \in connected) =>
       \/ reqs[act.s] # NoReq /\ AckOf(act.s) = {}
       \/ reqs[act.s] = NoReq /\ Cardinality(AckOf(act.s)) = 1
  /\ (act.op \in RequestDone /\ act.s \in connected /\ reqs[act.s] = NoReq) =>
       Cardinality(AckOf(act.s)) = 1

\* ----------------------------------------------------------------- C16
\* the steps of handlers in which an error can be left uncaught
HandlersWithoutCatch ==
  {"typing-room", "stop-typing-room", "message", "get-public-rooms-done"}

\* C16: no error raised while an inbound event is handled leaves its
\* handler, whatever the payload; a step that answers with a failure ack
\* emits that ack, to the caller, and nothing else, and leaves the registry,
\* the subscriptions, the connections and the tables as they were.
C16_ErrorsStayInHandler ==
  [][/\ act'.op \in HandlersWithoutCatch => ~act'.escaped
     /\ (\E i \in 1..Len(out') : out'[i].ev = "ack" /\ ~out'[i].p.success) =>
          /\ Len(out') = 1
          /\ out'[1].to = {act'.s}
          /\ UNCHANGED <<userSockets, socketUsers, connected, adapter, rooms,
                         members, messages, sockUser, hs>>]_vars

\* ----------------------------------------------------------------- C17
\* C17: a create-room that succeeds stores the room, with its name, its
\* visibility and its creator, together with the creator's membership as
\* owner, in one step (every create-room stores both rows or none, and every
\* stored room has its creator as owner); when it is done the creating
\* socket is subscribed to the room and gets one ack, a success naming the
\* room; one room-created is emitted and received by every connected socket
\* if the room is public, and none is emitted if it is private.
C17_CreateRoomSucceeds ==
  [][/\ act'.op = "create-room" =>
          /\ (Len(rooms') = Len(rooms) + 1 /\ Len(members') = Len(members) + 1)
               \/ (rooms' = rooms /\ members' = members)
          /\ reqs'[act'.s] # NoReq =>
               /\ rooms' = Append(rooms, [name |-> act'.name,
                                          display_name |-> act'.displayName,
                                          is_public |-> act'.isPublic,
                                          created_by |-> sockUser[act'.s]])
               /\ members' = Append(members, [room_id |-> Len(rooms'),
                                              user_id |-> sockUser[act'.s],
                                              role |-> "owner"])
               /\ reqs'[act'.s].room = Len(rooms')
     /\ \A r \in 1..Len(rooms') :
          \E i \in 1..Len(members') :
            members'[i] = [room_id |-> r, user_id |-> rooms'[r].created_by,
                           role |-> "owner"]
     /\ act'.op = "create-room-done" =>
          /\ act'.s \in subscribersOf(act.room)'
          /\ UNCHANGED <<rooms, members>>
          /\ act'.s \in connected' =>
               /\ Cardinality(AckOf(act.s)') = 1
               /\ \A i \in AckOf(act.s)' :
                    out'[i].p.success /\ out'[i].p.data.room = act'.room
          /\ IF rooms[act'.room].is_public
             THEN /\ Cardinality(Events("room-created")') = 1
                  /\ \A i \in Events("room-created")' :
                       /\ Received(out[i])' = connected'
                       /\ out'[i].p.room = act'.room
             ELSE Events("room-created")' = {}]_vars

\* a private room was created: its creator is subscribed and acked, the
\* other connected socket got nothing
C17_Witness ==
  /\ act.op = "create-room-done"
  /\ ~rooms[act.room].is_public
  /\ Cardinality(connected) = 2
  /\ act.s \in subscribersOf(act.room)
  /\ AckOf(act.s) # {}
  /\ Len(out) = 1

\* ----------------------------------------------------------------- C18
\* a name that createRoom accepts
NameIsValid(name) ==
  /\ Len(name) >= MinNameLength
  /\ Len(name) <= MaxNameLength
  /\ \A i \in 1..Len(name) : name[i] \in LowerAlnumHyphen

\* C18: a create-room whose name has a character outside a-z, 0-9 and the
\* hyphen, or fewer than 3 or more than 100 characters, or is the name of a
\* stored room, gets one failure ack, to the caller, and nothing else is
\* emitted; rooms, memberships and subscriptions stay as they were and no
\* handler is left in progress; so of two create-room requests in progress
\* at once with the same name, the second is rejected as a duplicate and no
\* two stored rooms share a name.
C18_CreateRoomRejected ==
  [][/\ (act'.op = "create-room"
          /\ (~NameIsValid(act'.name)
                \/ \E r \in 1..Len(rooms) : rooms[r].name = act'.name)) =>
          /\ Len(out') = 1
          /\ out'[1].ev = "ack"
          /\ out'[1].to = {act'.s}
          /\ ~out'[1].p.success
          /\ (NameIsValid(act'.name) /\ act'.displayName # "") =>
               out'[1].p.error = "Room name already exists"
          /\ UNCHANGED <<rooms, members, adapter, reqs>>
     /\ \A q, r \in 1..Len(rooms') : rooms'[q].name = rooms'[r].name => q = r]_vars

\* while a create-room is in progress on one socket, a create-room with the
\* same name on the other socket was rejected as a duplicate
C18_Witness ==
  /\ act.op = "create-room"
  /\ NameIsValid(act.name)
  /\ AckOf(act.s) # {}
  /\ \A i \in AckOf(act.s) : out[i].p.error = "Room name already exists"
  /\ \E x \in Sockets \ {act.s} :
       /\ reqs[x].op = "create-room"
       /\ rooms[reqs[x].room].name = act.name

\* ----------------------------------------------------------------- C19
\* C19: a join-room for a room id that is not stored, or for a private room,
\* gets one failure ack, to the caller, and nothing else is emitted (no
\* history, no user-joined-room); memberships and subscriptions stay as they
\* were and no handler is left in progress.
C19_JoinRoomRejected ==
  [][(act'.op = "join-room"
        /\ (~roomExists(act'.room) \/ ~rooms[act'.room].is_public)) =>
       /\ out' = <<Ack(act'.s, FALSE,
                       IF roomExists(act'.room) THEN "Room is private"
                       ELSE "Room not found", Null)>>
       /\ Events("user-joined-room")' = {}
       /\ UNCHANGED <<members, adapter, reqs, rooms, messages>>]_vars

\* a user who is not a member asked to join a private room and is still
\* neither a member nor subscribed
C19_Witness ==
  /\ act.op = "join-room"
  /\ roomExists(act.room)
  /\ ~rooms[act.room].is_public
  /\ ~isRoomMember(act.room, sockUser[act.s])
  /\ act.s \notin subscribersOf(act.room)
  /\ \E i \in AckOf(act.s) : ~out[i].p.success

\* ----------------------------------------------------------------- C20
\* C20: a leave-room by a user who is a member and not the owner goes on to
\* delete the user's membership row, and only that row; when it is done the
\* calling socket is no longer subscribed, the other sockets' subscriptions
\* are as they were, the caller (if open) gets one ack, a success, and one
\* user-left-room naming the room and the user is emitted and received by
\* exactly the other open sockets subscribed to the room, never by the
\* caller. A leave-room by a user who is not a member gets one failure ack
\* and changes no membership and no subscription and emits nothing else.
C20_LeaveRoom ==
  [][/\ (act'.op = "leave-room" /\ act'.role = "none") =>
          /\ out' = <<Ack(act'.s, FALSE, "Not a member of this room", Null)>>
          /\ UNCHANGED <<members, adapter, reqs, rooms, messages>>
     /\ (act'.op = "leave-room" /\ act'.role = "member") =>
          /\ reqs'[act'.s].op = "leave-room"
          /\ out' = <<>>
          /\ UNCHANGED <<members, adapter>>
     /\ (act'.op = "leave-room-delete"
          /\ isRoomMember(act'.room, sockUser[act'.s])) =>
          /\ ~isRoomMember(act.room, sockUser[act.s])'
          /\ members' = SelectSeq(members,
                                  LAMBDA m : ~(m.room_id = act'.room
                                               /\ m.user_id = sockUser[act'.s]))
          /\ Len(members') = Len(members) - 1
          /\ out' = <<>>
          /\ UNCHANGED adapter
     /\ act'.op = "leave-room-done" =>
          /\ act'.s \notin subscribersOf(act.room)'
          /\ \A r \in RoomIds :
               subscribersOf(r)' \ {act'.s} = subscribersOf(r) \ {act'.s}
          /\ UNCHANGED members
          /\ act'.s \in connected' =>
               /\ Cardinality(AckOf(act.s)') = 1
               /\ \A i \in AckOf(act.s)' : out'[i].p.success
          /\ Cardinality(Events("user-left-room")') = 1
          /\ \A i \in Events("user-left-room")' :
               /\ out'[i].p = [roomId |-> act'.room, userId |-> sockUser[act'.s]]
               /\ Received(out[i])' =
                    (subscribersOf(act'.room) \cap connected) \ {act'.s}]_vars

\* a member left a room: its row is gone, its socket is unsubscribed and
\* acked, and the owner's socket, still subscribed, was told
C20_Witness ==
  /\ act.op = "leave-room-done"
  /\ act.s \in connected
  /\ ~isRoomMember(act.room, sockUser[act.s])
  /\ act.s \notin subscribersOf(act.room)
  /\ ReceivedAny("user-left-room") # {}
  /\ ReceivedAny("user-left-room") = subscribersOf(act.room) \cap connected

\* ----------------------------------------------------------------- C21
\* C21: removeUser of a registered socket returns the user it is registered
\* to, takes the socket out of that user's set (dropping the user when the
\* set becomes empty), leaves the other users' sets alone and unregisters
\* the socket; removeUser of a socket that is not registered, as is a socket
\* just removed, returns null and leaves the registry unchanged.
C21_RemoveUserOnce ==
  [][act'.op = "removeUser" =>
       IF act'.s \in DOMAIN socketUsers
       THEN /\ act'.ret = socketUsers[act'.s]
            /\ act'.s \notin DOMAIN socketUsers'
            /\ getUserSockets(Registry, act.ret)' =
                 getUserSockets(Registry, act'.ret) \ {act'.s}
            /\ act'.ret \in DOMAIN userSockets' =>
                 userSockets'[act'.ret] # {}
            /\ \A u \in Users \ {act'.ret} :
                 /\ u \in DOMAIN userSockets' <=> u \in DOMAIN userSockets
                 /\ getUserSockets(Registry, u)' = getUserSockets(Registry, u)
            /\ \A x \in Sockets \ {act'.s} :
                 /\ x \in DOMAIN socketUsers' <=> x \in DOMAIN socketUsers
                 /\ x \in DOMAIN socketUsers => socketUsers'[x] = socketUsers[x]
            /\ removeUser(Registry, act.s)' = [reg |-> Registry', ret |-> Null]
       ELSE /\ act'.ret = Null
            /\ UNCHANGED <<userSockets, socketUsers>>]_vars

\* a socket that is not registered was removed, with null returned, while
\* another socket is registered
C21_Witness ==
  /\ act.op = "removeUser"
  /\ act.ret = Null
  /\ act.s \notin DOMAIN socketUsers
  /\ DOMAIN socketUsers # {}

\* ----------------------------------------------------------------- C22
\* C22: addUser(u, s) for a socket s already registered to u leaves both
\* maps as they were, and a single removeUser(s) afterwards returns u and
\* leaves s in no user's set and not registered (s being in no other user's
\* set before).
C22_AddUserIdempotent ==
  [][(/\ act'.op = "addUser"
      /\ act'.s \in DOMAIN socketUsers
      /\ socketUsers[act'.s] = act'.userId
      /\ act'.s \in getUserSockets(Registry, act'.userId)) =>
       /\ UNCHANGED <<userSockets, socketUsers>>
       /\ (\A v \in Users \ {act'.userId} :
             act'.s \notin getUserSockets(Registry, v)) =>
            LET r == removeUser(Registry, act.s)'
            IN /\ r.ret = act'.userId
               /\ act'.s \notin DOMAIN r.reg.socketUsers
               /\ \A v \in Users : act'.s \notin getUserSockets(r.reg, v)]_vars

\* addUser was called again for a socket of a user who has two sockets
C22_Witness ==
  /\ act.op = "addUser"
  /\ Cardinality(getUserSockets(Registry, act.userId)) = 2
  /\ DOMAIN socketUsers = Sockets
  /\ \A x \in Sockets : socketUsers[x] = act.userId

\* ----------------------------------------------------------------- C23
\* C23: every stored message has a room id or a recipient id, and not both;
\* a room-message without room id and a direct-message without recipient id
\* get a failure ack and store nothing, and no step stores a message other
\* than the one the request in progress describes.
C23_RoomXorRecipient ==
  [][/\ \A i \in 1..Len(messages') :
          (messages'[i].room_id = Null) # (messages'[i].recipient_id = Null)
     /\ ((act'.op = "room-message" /\ act'.room = Null)
          \/ (act'.op = "direct-message" /\ act'.recipientId = Null)) =>
          /\ Len(out') = 1
          /\ out'[1].ev = "ack"
          /\ out'[1].to = {act'.s}
          /\ ~out'[1].p.success
          /\ UNCHANGED <<messages, reqs>>
     /\ messages' # messages =>
          /\ act'.op \in {"room-message-insert", "direct-message"}
          /\ Len(messages') = Len(messages) + 1
          /\ SubSeq(messages', 1, Len(messages)) = messages]_vars

\* a room message and a direct message are stored
C23_Witness ==
  /\ Len(messages) = 2
  /\ \E i, j \in 1..Len(messages) :
       /\ messages[i].room_id # Null /\ messages[i].recipient_id = Null
       /\ messages[j].room_id = Null /\ messages[j].recipient_id # Null

\* ----------------------------------------------------------------- C24
\* C24: a typing-room (stop-typing-room) of socket s that names room r emits
\* one user-typing-room (user-stop-typing-room) naming r and the user of s,
\* received by exactly the open sockets subscribed to r other than s, and
\* changes neither the registry, nor any subscription, nor the tables, nor
\* any connection or request.
C24_TypingReachesOthersOnly ==
  [][(act'.op \in {"typing-room", "stop-typing-room"} /\ act'.data.present) =>
       /\ Len(out') = 1
       /\ out'[1].ev = (IF act'.op = "typing-room" THEN "user-typing-room"
                        ELSE "user-stop-typing-room")
       /\ out'[1].p = [roomId |-> act'.data.roomId, userId |-> sockUser[act'.s]]
       /\ Received(out[1])' =
            (subscribersOf(act'.data.roomId) \cap connected) \ {act'.s}
       /\ UNCHANGED <<userSockets, socketUsers, adapter, rooms, members,
                      messages, connected, sockUser, hs, reqs>>]_vars

\* a socket subscribed to a room sent typing-room and the other subscriber,
\* not the sender, received user-typing-room
C24_Witness ==
  /\ act.op = "typing-room"
  /\ act.data.present
  /\ act.s \in subscribersOf(act.data.roomId)
  /\ Received(out[1]) # {}
  /\ act.s \notin Received(out[1])

\* ----------------------------------------------------------------- C25
\* C25: a get-direct-messages emits one event, the ack to the caller; every
\* message of a successful answer is a stored message without room id whose
\* sender and recipient are the caller and otherUserId, one way or the other,
\* whatever otherUserId is; without otherUserId the answer is a failure.
C25_OnlyTheTwoUsersMessages ==
  /\ act.op = "get-direct-messages-done" =>
       /\ Len(out) = 1
       /\ out[1].ev = "ack"
       /\ out[1].to = {act.s}
       /\ out[1].p.success
       /\ \A k \in 1..Len(out[1].p.data.messages) :
            LET m == out[1].p.data.messages[k]
            IN /\ m \in 1..Len(messages)
               /\ messages[m].room_id = Null
               /\ \/ /\ messages[m].sender_id = sockUser[act.s]
                     /\ messages[m].recipient_id = act.otherUserId
                  \/ /\ messages[m].sender_id = act.otherUserId
                     /\ messages[m].recipient_id = sockUser[act.s]
  /\ act.op = "get-direct-messages" =>
       IF act.otherUserId = Null
       THEN out = <<Ack(act.s, FALSE, "Other user ID is required", Null)>>
       ELSE out = <<>>

\* a caller got its conversation with another user, without the other
\* stored message, a direct message of the caller that is not part of it
C25_Witness ==
  /\ act.op = "get-direct-messages-done"
  /\ Len(out[1].p.data.messages) = 1
  /\ Len(messages) = 2
  /\ \E i \in 1..Len(messages) :
       /\ messages[i].room_id = Null
       /\ messages[i].sender_id = sockUser[act.s]
       /\ messages[i].recipient_id # act.otherUserId

\* ----------------------------------------------------------------- C26
\* the steps that start the handler of an inbound event of a client
HandlerStarts ==
  {"create-room", "join-room", "leave-room", "get-room-members",
   "get-public-rooms", "room-message", "direct-message", "get-direct-messages",
   "typing-room", "stop-typing-room", "message"}

\* C26: the handler of an inbound event of a socket starts only once the
\* socket's handlers are registered, and when they are registered (on an
\* open socket) the socket is in the presence registry, is subscribed to
\* the rooms its user is a member of, and user-rooms and welcome have been
\* emitted to it.
C26_SetupBeforeEvents ==
  [][/\ act'.op \in HandlerStarts => hs[act'.s].pc = "active"
     /\ \A s \in Sockets :
          (hs[s].pc # "active" /\ hs'[s].pc = "active") =>
            (act'.op = "connected" /\ act'.s = s)
     /\ (act'.op = "connected" /\ act'.s \in connected') =>
          /\ act'.s \in DOMAIN socketUsers'
          /\ socketUsers'[act'.s] = sockUser[act'.s]
          /\ act'.s \in getUserSockets(Registry, sockUser[act'.s])
          /\ \A r \in act'.had : act'.s \in subscribersOf(r)'
          /\ \E i \in Events("user-rooms")' : out'[i].to = {act'.s}
          /\ \E i \in Events("welcome")' : out'[i].to = {act'.s}]_vars

\* ----------------------------------------------------------------- C28
\* C28: when the handlers of an open socket are registered, the socket is
\* subscribed to every room its user was a member of when the connection
\* handler started, and a user-rooms event listing exactly those rooms has
\* been emitted to it, whether or not roomService.getUserRooms succeeded.
C28_ActiveMeansSubscribed ==
  [][(act'.op = "connected" /\ act'.s \in connected') =>
       /\ \A r \in act'.had : act'.s \in subscribersOf(r)'
       /\ \E i \in Events("user-rooms")' :
            /\ out'[i].to = {act'.s}
            /\ out'[i].p.rooms = act'.had]_vars

\* ----------------------------------------------------------------- C27
\* a socket that is in the presence registry while its connection handler
\* has not yet subscribed it to a room its user was already a member of
\* when the handler started
HalfRegistered(s) ==
  /\ s \in connected
  /\ s \in DOMAIN socketUsers
  /\ hs[s].pc \in {"awaitRooms", "gotRooms"}
  /\ \E r \in hs[s].had : s \notin subscribersOf(r)

\* C27: while a socket is half registered no step of another socket runs,
\* and a room-message broadcast to a room reaches every open registered
\* socket whose connection handler is running and whose user was a member
\* of the room when that handler started.
C27_RegistrationAtomic ==
  [][/\ \A s \in Sockets :
          (HalfRegistered(s) /\ "s" \in DOMAIN act') => act'.s = s
     /\ act'.op = "room-message-done" =>
          \A s \in connected' :
            (/\ s \in DOMAIN socketUsers'
             /\ hs'[s].pc \in {"awaitRooms", "gotRooms"}
             /\ act'.room \in hs'[s].had)
              => s \in ReceivedAny("room-message")']_vars

\* ----------------------------------------------------------------- C29
\* C29: when the connection handler of a socket finishes, user-rooms and
\* welcome reach no socket but the connecting one (welcome reaches it if it
\* is still open, and user-rooms too if the rooms were loaded); one
\* user-joined is emitted and reaches exactly the other open sockets; one
\* online-users is emitted, lists the connecting user and reaches every
\* open socket, the new one included.
C29_ConnectionEvents ==
  [][act'.op = "connected" =>
       LET s == act'.s IN
       /\ \A i \in Events("user-rooms")' \cup Events("welcome")' :
            (out'[i].to \cap connected') \subseteq {s}
       /\ s \in connected' =>
            /\ \E i \in Events("welcome")' : (out'[i].to \cap connected') = {s}
            /\ act'.ok => \E i \in Events("user-rooms")' :
                             (out'[i].to \cap connected') = {s}
       /\ Cardinality(Events("user-joined")') = 1
       /\ \A i \in Events("user-joined")' :
            (out'[i].to \cap connected') = connected' \ {s}
       /\ Cardinality(Events("online-users")') = 1
       /\ \A i \in Events("online-users")' :
            /\ (out'[i].to \cap connected') = connected'
            /\ sockUser'[s] \in out'[i].p.users
            /\ s \in connected' => s \in (out'[i].to \cap connected')]_vars

\* a socket finished connecting while another socket was open, and received
\* a user-rooms event that lists a room
C29_Witness ==
  /\ act.op = "connected"
  /\ act.s \in connected
  /\ connected # {act.s}
  /\ \E i \in Events("user-rooms") :
       out[i].p.rooms # {} /\ Received(out[i]) = {act.s}
  /\ ReceivedAny("user-joined") = connected \ {act.s}
  /\ ReceivedAny("online-users") = connected

\* ----------------------------------------------------------------- C30
\* the rooms a socket is subscribed to
subscriptionsOf(s) == {r \in DOMAIN adapter : s \in adapter[r]}

\* C30: when roomService.createRoom, joinRoom or leaveRoom fails in the
\* handler of an open socket, the step that handles the failure changes no
\* room subscription, emits nothing but one ack to the caller, and that ack
\* has success = false; the only step of such a request before the failure
\* (the membership check of leave-room) changes no subscription and emits
\* nothing, and between the two no step of another socket changes the
\* caller's subscriptions.
C30_FailedStoreCallChangesNothing ==
  [][/\ (/\ act'.op \in {"create-room-failed", "join-room-failed",
                          "leave-room-failed"}
         /\ act'.call \in {"createRoom", "joinRoom", "leaveRoom"}) =>
          /\ adapter' = adapter
          /\ Len(out') = 1
          /\ out'[1].ev = "ack" /\ out'[1].to = {act'.s}
          /\ out'[1].p.success = FALSE
     /\ act'.op = "leave-room" =>
          /\ adapter' = adapter
          /\ \A i \in 1..Len(out') : out'[i].to \subseteq {act'.s}
     /\ \A s \in Sockets :
          (/\ reqs[s].op = "leave-room" /\ reqs[s].pc = "delete"
           /\ s \in connected') =>
            subscriptionsOf(s)' = subscriptionsOf(s)]_vars

\* joinRoom failed for an open socket that asked to join a room another open
\* socket is subscribed to
C30_Witness ==
  /\ act.op = "join-room-failed" /\ act.call = "joinRoom"
  /\ act.s \in connected
  /\ act.room \notin subscriptionsOf(act.s)
  /\ \E x \in connected \ {act.s} : act.room \in subscriptionsOf(x)
  /\ \E i \in AckOf(act.s) : ~out[i].p.success

\* ----------------------------------------------------------------- C31
\* C31: when the handler of join-room ends with a failure ack on an open
\* socket, the caller is a member of the room exactly if it was one when the
\* request arrived, and the socket is subscribed to the room exactly if it
\* was subscribed then.
C31_JoinRoomAllOrNothing ==
  [][/\ (/\ act'.op = "join-room"
         /\ \E i \in Events("ack")' :
              out'[i].to = {act'.s} /\ ~out'[i].p.success) =>
          (members' = members /\ adapter' = adapter)
     /\ (act'.op = "join-room-failed" /\ act'.s \in connected') =>
          /\ (\E i \in 1..Len(members') :
                /\ members'[i].room_id = act'.room
                /\ members'[i].user_id = sockUser'[act'.s]) = act'.already
          /\ (/\ act'.room \in DOMAIN adapter'
              /\ act'.s \in adapter'[act'.room]) = act'.subscribed]_vars

\* ----------------------------------------------------------------- C34
\* C34: the request the client's loadPublicRooms sends,
\* emit("get-public-rooms", null, callback), is answered: when its handler
\* ends on an open socket, the socket is sent an ack with success = true
\* whose data is the list of public rooms the handler loaded.
C34_LoadPublicRoomsAnswered ==
  [][(/\ act'.op = "get-public-rooms-done"
      /\ act'.callback = "null"
      /\ act'.s \in connected') =>
       \E i \in Events("ack")' :
         /\ out'[i].to = {act'.s}
         /\ out'[i].p.success
         /\ out'[i].p.data = [rooms |-> reqs[act'.s].data]]_vars

\* ----------------------------------------------------------------- C35
\* C35: every socket that receives a room-message event of a room belongs
\* to a user who has a membership row for the room when it is broadcast.
C35_OnlyMembersReceive ==
  [][act'.op = "room-message-done" =>
       \A x \in Sockets :
         (\E i \in Events("room-message")' : x \in out'[i].to \cap connected')
           => isRoomMember(act'.room, sockUser[x])]_vars

\* ----------------------------------------------------------------- C37
\* C37: after any sequence of addUser and removeUser calls socketUsers maps
\* socket s to user u exactly if s is in userSockets[u].
C37_MapsMutuallyInverse ==
  \A s \in Sockets, u \in Users :
    (s \in DOMAIN socketUsers /\ socketUsers[s] = u)
      <=> s \in getUserSockets(Registry, u)

\* ----------------------------------------------------------------- C38
\* the membership rows of a room with role 'owner'
ownerRows(r) ==
  {i \in 1..Len(members) : members[i].room_id = r /\ members[i].role = "owner"}

\* C38: in every state every room has exactly one membership row with role
\* 'owner', the row of its creator, and its creator has no other row in
\* the room.
C38_OneOwnerTheCreator ==
  \A r \in 1..Len(rooms) :
    /\ Cardinality(ownerRows(r)) = 1
    /\ \A i \in ownerRows(r) : members[i].user_id = rooms[r].created_by
    /\ Len(memberRows(r, rooms[r].created_by)) = 1

\* the owner of a room has sent join-room for it and was acked, while
\* another user is a member of the room
C38_Witness ==
  /\ act.op = "join-room-done"
  /\ act.already
  /\ act.room \in 1..Len(rooms)
  /\ sockUser[act.s] = rooms[act.room].created_by
  /\ \E i \in 1..Len(members) :
       members[i].room_id = act.room /\ members[i].role = "member"

\* ----------------------------------------------------------------- C39
\* C39: when a direct-message is accepted, every open socket of the
\* recipient and the sending socket, if open, are sent exactly one
\* direct-message event, and no other socket is sent one.
C39_DirectMessageOnce ==
  [][act'.op = "direct-message-done" =>
       \A x \in connected' :
         Cardinality({i \in Events("direct-message")' : x \in out'[i].to})
           = IF x = act'.s \/ x \in getUserSockets(Registry, act'.recipientId)
             THEN 1 ELSE 0]_vars

\* ----------------------------------------------------------------- C36
\* C36: when a socket has sent two room-messages to a room, the second
\* while the first awaited its save, and both are accepted, the
\* room-message event of the second is emitted only after the event of
\* the first.
C36_PerSenderFifo ==
  [][(/\ act'.op = "room-message-done"
      /\ reqs[act'.s].op = "room-messages"
      /\ act'.nth = 2) =>
       reqs[act'.s].items[1].pc = "done"]_vars

\* ----------------------------------------------------------------- C32
\* the numbers of emission of the events written to a socket, oldest first
stampsOf(s) == [i \in 1..Len(clients.wire[s]) |-> clients.wire[s][i].n]

NoHandshake == \A s \in Sockets : hs[s].pc \notin {"awaitRooms", "gotRooms"}

\* the online-users events written to a socket, oldest first
snapshotsOf(s) ==
  SelectSeq(clients.wire[s], LAMBDA x : x.e.ev = "online-users")

\* the last online-users event written to the socket is the registry's
\* set of online users with its size
UpToDate(s) ==
  /\ Len(snapshotsOf(s)) > 0
  /\ LET last == snapshotsOf(s)[Len(snapshotsOf(s))].e.p
     IN /\ last.users = getOnlineUsers(Registry)
        /\ last.count = Cardinality(getOnlineUsers(Registry))

\* C33: whenever no connection handler is in progress, the last
\* online-users snapshot written to each open socket holds the registry's
\* current set of online users and its size; and an open socket whose last
\* snapshot differs from the registry is eventually sent one that agrees
\* with it, or closes.
C33_SnapshotsFollowRegistry ==
  /\ [](NoHandshake => \A s \in connected : UpToDate(s))
  /\ \A s \in Sockets :
       (s \in connected /\ ~UpToDate(s)) ~> (s \notin connected \/ UpToDate(s))

\* a user's last socket has closed while another user's socket stays open
\* and has been sent the snapshot without that user, after one with it
C33_Witness ==
  /\ act.op = "disconnect" /\ act.handled /\ act.last
  /\ NoHandshake
  /\ \E s \in connected :
       /\ UpToDate(s)
       /\ Len(snapshotsOf(s)) > 1
       /\ snapshotsOf(s)[Len(snapshotsOf(s)) - 1].e.p.users
            # getOnlineUsers(Registry)

\* ----------------------------------------------------------------- C40
\* the set an observer keeps: the users of the first online-users event,
\* then each user-joined adds its user and each user-left removes it
RECURSIVE deltaView(_, _, _)
deltaView(w, started, users) ==
  IF w = <<>> THEN [started |-> started, users |-> users]
  ELSE LET e == Head(w).e
       IN IF ~started
          THEN IF e.ev = "online-users"
               THEN deltaView(Tail(w), TRUE, e.p.users)
               ELSE deltaView(Tail(w), FALSE, users)
          ELSE IF e.ev = "user-joined"
               THEN deltaView(Tail(w), TRUE, users \cup {e.p.userId})
          ELSE IF e.ev = "user-left"
               THEN deltaView(Tail(w), TRUE, users \ {e.p.userId})
          ELSE deltaView(Tail(w), TRUE, users)

viewOf(s) == deltaView(clients.wire[s], FALSE, {})

\* C40: whenever no connection handler is in progress, the set an observer
\* on an open socket has built from its first online-users snapshot and
\* the user-joined and user-left events after it is the registry's set of
\* online users.
C40_DeltasAgreeWithRegistry ==
  NoHandshake =>
    \A s \in connected :
      /\ viewOf(s).started
      /\ viewOf(s).users = getOnlineUsers(Registry)

\* an observer has seen another user join and leave after its first
\* snapshot
C40_Witness ==
  /\ NoHandshake
  /\ \E s \in connected :
       /\ viewOf(s).users = getOnlineUsers(Registry)
       /\ \E i, j, k \in 1..Len(clients.wire[s]) :
            /\ i < j /\ j < k
            /\ clients.wire[s][i].e.ev = "online-users"
            /\ clients.wire[s][j].e.ev = "user-joined"
            /\ clients.wire[s][k].e.ev = "user-left"
            /\ clients.wire[s][j].e.p.userId = clients.wire[s][k].e.p.userId

====
